---- MODULE Spec2Model ----
(***************************************************************************)
(* Model of the CDC pipeline of mysql-clickhouse-sync:                     *)
(* src/src/cdc_replicator.py (CDCReplicator) as driven by src/src/main.py. *)
(*                                                                         *)
(* One process executes CDCReplicator.run(); the source database keeps     *)
(* receiving writes (which append row events to the binlog) while it runs; *)
(* the process can be interrupted (KeyboardInterrupt), can be killed, and  *)
(* can be started again, in which case only the checkpoint file and the    *)
(* sink survive.                                                           *)
(*                                                                         *)
(* What the environment does here: the binlog reader moves its             *)
(* (log_file, log_pos) to the end of an event when it hands the event out; *)
(* a handler, or waiting for the next event, can raise a transport error   *)
(* or any other exception; the wall clock advances between two reads of    *)
(* _get_version_timestamp; whether 5 s have passed since the last periodic *)
(* save is left open. Writing the position file and closing the stream     *)
(* succeed.                                                                *)
(***************************************************************************)
EXTENDS Integers, Sequences, FiniteSets, TLC

----------------------------------------------------------------------------
(* Bounds of the model *)

\* number of row events the source appends to the binlog
MaxEvents == 1
\* number of backoff sleeps of one run() when the process can be restarted
MaxReopens == 1
\* number of backoff sleeps of one run() when it runs alone
MaxBackoffs == 7
\* number of reads of the wall clock by _get_version_timestamp
MaxClock == 3
\* number of row events the server writes to one binlog file before rotating
EventsPerFile == 2

----------------------------------------------------------------------------
(* Values *)

\* Optional[x]: None is the empty sequence, a value x is <<x>>
None == <<>>
Some(x) == <<x>>

Min(a, b) == IF a <= b THEN a ELSE b

\* tables of the source schema, in the order SHOW TABLES lists them
SourceTables == <<"t1", "t2">>
\* column names of every source table, in ORDINAL_POSITION order
SourceColumns == <<"id", "val">>
\* primary key values and values of the other column
Keys == {"k1"}
Vals == {"a", "b"}
Absent == "absent"

Range(s) == {s[i] : i \in 1..Len(s)}

\* rows the source holds before the first event of the binlog: the first
\* table has a row, the second is empty
InitialSource ==
    [t \in Range(SourceTables) |->
        [k \in Keys |-> IF t = SourceTables[1] THEN "a" ELSE Absent]]

\* The binlog coordinate (log file, offset) reached after the first i events.
LogPos(i) == [file |-> i \div EventsPerFile, position |-> i % EventsPerFile]
\* The number of events that lie before a binlog coordinate.
LogIndex(p) == p.file * EventsPerFile + p.position

----------------------------------------------------------------------------
(* BinlogPosition and the checkpoint file *)

\* Content of the position file: absent, text that is not JSON, or a JSON
\* object with a set of keys (the values of file and position when present).
AbsentFile == [kind |-> "absent", keys |-> {}, file |-> 0, position |-> 0]
TextFile == [kind |-> "text", keys |-> {}, file |-> 0, position |-> 0]
JsonFile(keys, f, n) == [kind |-> "json", keys |-> keys, file |-> f, position |-> n]

\* BinlogPosition.to_dict followed by json.dumps and write_text
ToDict(p) == JsonFile({"file", "position", "timestamp"}, p.file, p.position)

\* BinlogPosition.from_dict: cls(**data) raises TypeError unless the keys are
\* the dataclass fields, of which timestamp has a default.
FromDictRaises(data) ==
    ~ ({"file", "position"} \subseteq data.keys
        /\ data.keys \subseteq {"file", "position", "timestamp"})

FromDict(data) == [file |-> data.file, position |-> data.position]

\* a _load_position that trusts whatever JSON object it finds
LoadPositionUnchecked(f) ==
    IF f.kind = "json" THEN Some(FromDict(f)) ELSE None

\* CDCReplicator._load_position
LoadPosition(f) ==
    IF f.kind = "absent" THEN None
    ELSE IF f.kind # "json" THEN None
    ELSE IF FromDictRaises(f) THEN None
    ELSE Some(FromDict(f))

\* CDCReplicator._save_position
SavePosition(p) == ToDict(p)

----------------------------------------------------------------------------
(* Settings *)

\* REPLICATION_TABLES (the pieces between its commas, none when it is unset
\* or empty) and REPLICATION_DROP_EXISTING
SettingsChoices ==
    {[tables |-> <<>>, drop_existing |-> FALSE],
     [tables |-> <<"t1">>, drop_existing |-> FALSE],
     [tables |-> <<"t1">>, drop_existing |-> TRUE]}

\* str.strip on a piece of REPLICATION_TABLES
Strip(piece) ==
    CASE piece = " t1" -> "t1"
      [] piece = "t1 " -> "t1"
      [] piece = " " -> ""
      [] OTHER -> piece

\* ReplicationConfig.get_tables_list: the pieces stripped, the empty ones
\* left out
GetTablesList(pieces) ==
    SelectSeq([i \in 1..Len(pieces) |-> Strip(pieces[i])],
              LAMBDA t : t # "")

\* a _get_tables that always asks the source for its tables
GetTablesOfSource(s) == SourceTables

\* CDCReplicator._get_tables
GetTables(s) ==
    IF GetTablesList(s.tables) # <<>>
    THEN GetTablesList(s.tables) ELSE SourceTables

\* a stream opened without the saved position
CreateBinlogStreamAtCurrent(pos, tablesToReplicate, masterIdx) ==
    [resume_stream |-> FALSE,
     only_tables |-> tablesToReplicate,
     log_file |-> LogPos(masterIdx).file,
     log_pos |-> LogPos(masterIdx).position]

\* CDCReplicator._create_binlog_stream: the keyword arguments handed to
\* BinLogStreamReader, which starts at (log_file, log_pos) when they are
\* given and at the server's current position (masterIdx) otherwise.
CreateBinlogStream(pos, tablesToReplicate, masterIdx) ==
    [resume_stream |-> pos # None,
     only_tables |-> tablesToReplicate,
     log_file |-> IF pos # None THEN pos[1].file ELSE LogPos(masterIdx).file,
     log_pos |-> IF pos # None THEN pos[1].position ELSE LogPos(masterIdx).position]

\* (self._stream.log_file, self._stream.log_pos) as a BinlogPosition
StreamPosition(st) == [file |-> st.log_file, position |-> st.log_pos]

\* reconnect_delay_seconds doubled without the 30 s ceiling
NextDelayUncapped(d) == d * 2

\* max_reconnect_delay_seconds
MaxReconnectDelaySeconds == 30

\* reconnect_delay_seconds = min(max_reconnect_delay_seconds, d * 2)
NextDelay(d) == Min(MaxReconnectDelaySeconds, d * 2)

----------------------------------------------------------------------------
(* State *)

VARIABLES
    settings,        \* ReplicationConfig: tables, drop_existing
    pc,              \* where the process is in main() / run()
    exitCode,        \* exit status of the process, -1 while it runs
    tables,          \* run(): local `tables` (self._tables_to_replicate is its set)
    position,        \* run(): local `position`
    syncPosition,    \* initial_sync(): local `position`
    todo,            \* tables still to visit in the current for-loop
    stream,          \* self._stream
    event,           \* index in the binlog of the event being handled, 0 if none
    tableSchemas,    \* self._table_schemas
    reconnectDelay,  \* run(): reconnect_delay_seconds
    outcome,         \* how the try block of the current pass ended
    positionFile,    \* content of the checkpoint file
    binlog,          \* row events of the source, in commit order
    source,          \* content of the source tables
    sink,            \* rows of the target tables
    clock,           \* wall clock, in microseconds
    obs,             \* history of the current run and of the sink
    inserts,         \* calls of ClickHouseClient.insert_data, when recorded
    handled,         \* the events the handlers were called with, when recorded
    lastSaveTime,    \* run(): last_save_time, in seconds
    stamps,          \* wall-clock times, in seconds, of checkpoint writes
    tasks,           \* Replicator.run(): the replicate_table call of each table
    results,         \* Replicator.run(): results
    identifier,      \* _validate_identifier: the arguments name and context
    verdict,         \* _validate_identifier: what the call returned or raised
    handles,         \* MySQLClient._connection and ClickHouseClient._client
    call,            \* the last call of an adapter method, with its outcome
    held,            \* connections and streams acquired and not yet closed
    streamRef,       \* self._stream: the pass that opened it, 0 for None
    passes,          \* run(): passes of the loop begun so far
    unwinding,       \* main(): the exception on its way out, the value returned
    sourceSchema,    \* the TableSchema given to the SchemaConverter
    generated        \* the last result of a SchemaConverter method

vars == <<settings, pc, exitCode, tables, position, syncPosition, todo,
          stream, event, tableSchemas, reconnectDelay, outcome, positionFile,
          binlog, source, sink, clock, obs, inserts, handled, lastSaveTime,
          stamps,
          tasks, results, identifier, verdict,
          handles, call,
          held, streamRef, passes, unwinding,
          sourceSchema, generated>>

\* the variables that only the specifications of single components use
handlerVars == <<inserts, handled>>
timerVars == <<lastSaveTime, stamps>>
snapshotVars == <<tasks, results>>
validatorVars == <<identifier, verdict>>
adapterVars == <<handles, call>>
releaseVars == <<held, streamRef, passes, unwinding>>
converterVars == <<sourceSchema, generated>>
unitVars == <<handlerVars, timerVars, snapshotVars, validatorVars,
             adapterVars,
             releaseVars,
             converterVars>>

procVars == <<tables, position, syncPosition, todo, stream, event,
              tableSchemas, reconnectDelay, outcome>>
envVars == <<binlog, source>>

Terminal == {"returned", "raised", "interrupted", "killed"}

\* what a fresh process has observed
FreshRun(o) ==
    [o EXCEPT !.loaded = FALSE, !.start = None, !.ddl = FALSE,
              !.snapshot = FALSE, !.described = {}, !.synced = FALSE,
              !.first = None, !.reopens = 0, !.slept = 0, !.signalled = FALSE,
              !.captured = FALSE, !.lastOpen = None, !.saved = None,
              !.startFile = AbsentFile, !.p0 = None, !.atSave = 0,
              !.copied = {}, !.unsaved = FALSE, !.session = <<>>]

InitObs ==
    [loaded |-> FALSE,       \* _load_position was called at the start of run()
     startFile |-> AbsentFile, \* content of the position file at that call
     start |-> None,         \* what that call returned
     p0 |-> None,            \* position of the source when initial_sync read it
     atSave |-> 0,           \* events in the binlog when initial_sync saved
     ddl |-> FALSE,          \* a DDL statement was sent to the sink
     snapshot |-> FALSE,     \* rows of a source table were read and copied
     described |-> {},       \* tables get_table_schema was called for
     synced |-> FALSE,       \* initial_sync ran to its end
     copied |-> {},          \* tables initial_sync has copied
     unsaved |-> FALSE,      \* a write of the position file failed
     session |-> <<>>,       \* binlog indices inserted from the current stream
     captured |-> FALSE,     \* initial_sync read the binlog position
     first |-> None,         \* arguments of the first stream opened
     lastOpen |-> None,      \* arguments of the last stream opened
     saved |-> None,         \* last position this run wrote to the file
     reopens |-> 0,          \* number of backoff sleeps
     slept |-> 0,            \* seconds of the last backoff sleep
     signalled |-> FALSE,    \* a shutdown signal was delivered
     clean |-> TRUE,         \* every table was empty when last snapshotted
     inserted |-> {},        \* binlog indices whose rows are in the sink
     snapshotAt |-> [t \in Range(SourceTables) |-> 0]]
                             \* number of events each table's snapshot reflects

\* the state of a process that has ended: nothing of it is left
Gone ==
    /\ tables' = <<>>
    /\ position' = None
    /\ syncPosition' = None
    /\ todo' = <<>>
    /\ stream' = None
    /\ event' = 0
    /\ tableSchemas' = <<>>
    /\ reconnectDelay' = 1
    /\ outcome' = "none"

\* no insert_data call and no handler call is recorded
HandlersAtRest == inserts = <<>> /\ handled = <<>>

\* no time is recorded: written is when the position file was last written,
\* entered when run() set last_save_time at line 306, periodic when the
\* periodic save last wrote
NoStamps == [written |-> 0, entered |-> 0, periodic |-> 0]
TimerAtRest == lastSaveTime = 0 /\ stamps = NoStamps

\* Replicator.run() is not running
SnapshotAtRest == tasks = <<>> /\ results = <<>>

\* _validate_identifier has not been called
NoVerdict ==
    [adapter |-> "", raised |-> "not called", value |-> <<>>, context |-> ""]
ValidatorAtRest ==
    /\ identifier = [name |-> <<>>, context |-> ""]
    /\ verdict = NoVerdict

\* neither adapter is connected and no method has been called
NoHandle == "None"
NoCall == [op |-> "none"]
AdaptersAtRest ==
    /\ handles = [mysql |-> NoHandle, clickhouse |-> NoHandle]
    /\ call = NoCall

\* main() holds nothing and nothing is on its way out of it
NotUnwinding == [exc |-> "none", cause |-> "none", code |-> 0]
ReleaseAtRest ==
    /\ held = {}
    /\ streamRef = 0
    /\ passes = 0
    /\ unwinding = NotUnwinding

\* no schema was read and no method of the SchemaConverter was called
NoSchema == [name |-> "", columns |-> <<>>, primary_keys |-> <<>>]
NothingGenerated == [method |-> "none"]
ConverterAtRest ==
    /\ sourceSchema = NoSchema
    /\ generated = NothingGenerated

Init ==
    /\ settings \in SettingsChoices
    /\ pc = "start"
    /\ exitCode = -1
    /\ tables = <<>>
    /\ position = None
    /\ syncPosition = None
    /\ todo = <<>>
    /\ stream = None
    /\ event = 0
    /\ tableSchemas = <<>>
    /\ reconnectDelay = 1
    /\ outcome = "none"
    /\ positionFile \in {AbsentFile, TextFile, JsonFile({"file"}, 0, 0),
                         JsonFile({"file", "position", "offset"}, 0, 0)}
    /\ binlog = <<>>
    /\ source = InitialSource
    /\ sink = [t \in Range(SourceTables) |-> {}]
    /\ clock = 0
    /\ obs = InitObs
    /\ HandlersAtRest
    /\ TimerAtRest
    /\ SnapshotAtRest
    /\ ValidatorAtRest
    /\ AdaptersAtRest
    /\ ReleaseAtRest
    /\ ConverterAtRest

----------------------------------------------------------------------------
(* The source database: every committed row change appends one row event *)

\* the row events carry the table, the kind of change, and the row image
\* (`values` for writes and deletes, `after_values` for updates)
\* and, for updates, the value the row had before (`before_values`)
WriteBinlog(t, kind, k, v) ==
    binlog' = binlog \o <<[table |-> t, type |-> kind, key |-> k, val |-> v,
                           old |-> source[t][k]]>>

SourceInsert ==
    \E t \in Range(SourceTables), k \in Keys, v \in {"a"} :
        /\ Len(binlog) < MaxEvents
        /\ source[t][k] = Absent
        /\ source' = [source EXCEPT ![t][k] = v]
        /\ WriteBinlog(t, "write", k, v)
        /\ UNCHANGED <<settings, unitVars, pc, exitCode, procVars, positionFile,
                       sink, clock, obs>>

\* the primary key of a row is never updated
SourceUpdate ==
    \E t \in Range(SourceTables), k \in Keys, v \in Vals :
        /\ Len(binlog) < MaxEvents
        /\ source[t][k] # Absent
        /\ source[t][k] # v
        /\ source' = [source EXCEPT ![t][k] = v]
        /\ WriteBinlog(t, "update", k, v)
        /\ UNCHANGED <<settings, unitVars, pc, exitCode, procVars, positionFile,
                       sink, clock, obs>>

SourceDelete ==
    \E t \in Range(SourceTables), k \in Keys :
        /\ Len(binlog) < MaxEvents
        /\ source[t][k] # Absent
        /\ source' = [source EXCEPT ![t][k] = Absent]
        /\ WriteBinlog(t, "delete", k, source[t][k])
        /\ UNCHANGED <<settings, unitVars, pc, exitCode, procVars, positionFile,
                       sink, clock, obs>>

----------------------------------------------------------------------------
(* run(): bootstrap *)

\* run(), lines 287-297: the table set, then the checkpoint decides between
\* the initial sync and priming the schema cache
Start ==
    /\ pc = "start"
    /\ tables' = GetTables(settings)
    /\ position' = LoadPosition(positionFile)
    /\ obs' = [obs EXCEPT !.loaded = TRUE, !.startFile = positionFile,
                          !.start = LoadPosition(positionFile)]
    /\ IF LoadPosition(positionFile) = None
       THEN pc' = "sync_position" /\ todo' = <<>>
       ELSE pc' = "prime" /\ todo' = GetTables(settings)
    /\ UNCHANGED <<settings, unitVars, exitCode, syncPosition, stream, event,
                   tableSchemas, reconnectDelay, outcome, positionFile,
                   envVars, sink, clock>>

\* _get_current_binlog_position: SHOW MASTER STATUS
GetCurrentBinlogPosition == LogPos(Len(binlog))

\* an initial_sync that persists the position as soon as it has read it
SyncCaptureAndSavePosition ==
    /\ pc = "sync_position"
    /\ syncPosition' = Some(GetCurrentBinlogPosition)
    /\ positionFile' = SavePosition(GetCurrentBinlogPosition)
    /\ todo' = tables
    /\ pc' = IF tables = <<>> THEN "sync_save" ELSE "sync_schema"
    /\ obs' = [obs EXCEPT !.captured = TRUE, !.ddl = TRUE,
                          !.p0 = Some(LogPos(Len(binlog)))]
    /\ UNCHANGED <<settings, unitVars, exitCode, tables, position, stream, event,
                   tableSchemas, reconnectDelay, outcome, envVars, sink, clock>>

\* initial_sync(), lines 230-237, and create_database of _ensure_cdc_schema
SyncCapturePosition ==
    /\ pc = "sync_position"
    /\ syncPosition' = Some(GetCurrentBinlogPosition)
    /\ todo' = tables
    /\ pc' = IF tables = <<>> THEN "sync_save" ELSE "sync_schema"
    /\ obs' = [obs EXCEPT !.captured = TRUE, !.ddl = TRUE,
                          !.p0 = Some(LogPos(Len(binlog)))]
    /\ UNCHANGED <<settings, unitVars, exitCode, tables, position, stream, event,
                   tableSchemas, reconnectDelay, outcome, positionFile,
                   envVars, sink, clock>>

\* _ensure_cdc_schema, one turn of its loop: describe, cache, optional drop,
\* CREATE TABLE IF NOT EXISTS
EnsureCdcSchema ==
    /\ pc = "sync_schema"
    /\ todo # <<>>
    /\ LET t == Head(todo) IN
        /\ tableSchemas' = [x \in DOMAIN tableSchemas \cup {t} |->
                              IF x = t THEN SourceColumns ELSE tableSchemas[x]]
        /\ sink' = IF settings.drop_existing THEN [sink EXCEPT ![t] = {}] ELSE sink
        /\ obs' = [obs EXCEPT
             !.ddl = TRUE,
             !.described = @ \cup {t},
             !.inserted = IF settings.drop_existing
                          THEN {i \in @ : binlog[i].table # t} ELSE @,
             !.snapshotAt = IF settings.drop_existing
                            THEN [@ EXCEPT ![t] = 0] ELSE @]
    /\ todo' = IF Len(todo) = 1 THEN tables ELSE Tail(todo)
    /\ pc' = IF Len(todo) = 1 THEN "sync_copy" ELSE "sync_schema"
    /\ UNCHANGED <<settings, unitVars, exitCode, tables, position, syncPosition,
                   stream, event, reconnectDelay, outcome, positionFile,
                   envVars, clock>>

\* the rows fetch_data_batched reads from table t, each extended by
\* (_version, _deleted = 0)
SnapshotRows(t, version) ==
    {<<k, source[t][k], version, 0>> : k \in {x \in Keys : source[t][x] # Absent}}

\* _sync_table_with_cdc_columns for one table of the loop of initial_sync
SyncTable ==
    /\ pc = "sync_copy"
    /\ todo # <<>>
    /\ clock < MaxClock
    /\ LET t == Head(todo) IN
        /\ sink' = [sink EXCEPT ![t] = @ \cup SnapshotRows(t, clock)]
        /\ obs' = [obs EXCEPT
             !.snapshot = TRUE,
             !.described = @ \cup {t},
             !.copied = @ \cup {t},
             !.clean = @ /\ sink[t] = {},
             !.snapshotAt = [@ EXCEPT ![t] = Len(binlog)]]
    /\ clock' = clock + 1
    /\ todo' = Tail(todo)
    /\ pc' = IF Len(todo) = 1 THEN "sync_save" ELSE "sync_copy"
    /\ UNCHANGED <<settings, unitVars, exitCode, tables, position, syncPosition,
                   stream, event, tableSchemas, reconnectDelay, outcome,
                   positionFile, envVars>>

\* the position of the source at the end of the copy
PositionAfterCopy == GetCurrentBinlogPosition

\* the position initial_sync persists: the one captured before the copy
PositionToPersist == syncPosition[1]

\* initial_sync(), line 247, then run(), line 294
SyncSave ==
    /\ pc = "sync_save"
    /\ positionFile' = SavePosition(PositionToPersist)
    /\ position' = LoadPosition(SavePosition(PositionToPersist))
    /\ obs' = [obs EXCEPT !.synced = TRUE, !.saved = Some(PositionToPersist),
                          !.atSave = Len(binlog)]
    /\ pc' = "open"
    /\ UNCHANGED <<settings, unitVars, exitCode, tables, syncPosition, todo,
                   stream, event, tableSchemas, reconnectDelay, outcome,
                   envVars, sink, clock>>

\* a restart that goes on to the stream without priming the cache
LoadNoTableSchemas ==
    /\ pc = "prime"
    /\ pc' = "open"
    /\ todo' = <<>>
    /\ UNCHANGED <<settings, unitVars, exitCode, tables, position, syncPosition,
                   stream, event, tableSchemas, reconnectDelay, outcome,
                   positionFile, envVars, sink, clock, obs>>

\* _load_table_schemas, one turn of its loop
LoadTableSchemas ==
    /\ pc = "prime"
    /\ IF todo = <<>>
       THEN /\ pc' = "open"
            /\ UNCHANGED <<todo, tableSchemas, obs>>
       ELSE LET t == Head(todo) IN
            /\ IF t \in DOMAIN tableSchemas
               THEN UNCHANGED <<tableSchemas, obs>>
               ELSE /\ tableSchemas' = [x \in DOMAIN tableSchemas \cup {t} |->
                              IF x = t THEN SourceColumns ELSE tableSchemas[x]]
                    /\ obs' = [obs EXCEPT !.described = @ \cup {t}]
            /\ todo' = Tail(todo)
            /\ pc' = IF Len(todo) = 1 THEN "open" ELSE "prime"
    /\ UNCHANGED <<settings, unitVars, exitCode, tables, position, syncPosition,
                   stream, event, reconnectDelay, outcome, positionFile,
                   envVars, sink, clock>>

----------------------------------------------------------------------------
(* run(): the streaming loop *)

\* run(), line 313
OpenStream ==
    /\ pc = "open"
    /\ LET st == CreateBinlogStream(position, Range(tables), Len(binlog)) IN
        /\ stream' = Some(st)
        /\ obs' = [obs EXCEPT !.first = IF @ = None THEN Some(st) ELSE @,
                              !.lastOpen = Some(st),
                              !.session = <<>>]
    /\ outcome' = "none"
    /\ pc' = "iter"
    /\ UNCHANGED <<settings, unitVars, exitCode, tables, position, syncPosition,
                   todo, event, tableSchemas, reconnectDelay, positionFile,
                   envVars, sink, clock>>

\* a reader that hands an event out and stays where it was
AdvanceNowhere(st, i) == st

\* the stream after BinLogStreamReader has read the event that ends at index i
Advance(st, i) ==
    [st EXCEPT !.log_file = LogPos(i).file, !.log_pos = LogPos(i).position]

\* run(), lines 316-320: the reader takes the next event off the wire, moves
\* (log_file, log_pos) to its end, drops it when only_tables excludes its
\* table and yields it otherwise; run() skips tables outside the replication set
FetchEvent ==
    /\ pc = "iter"
    /\ LET i == LogIndex(StreamPosition(stream[1])) + 1 IN
        /\ i <= Len(binlog)
        /\ stream' = Some(Advance(stream[1], i))
        /\ IF /\ stream[1].only_tables # {} =>
                    binlog[i].table \in stream[1].only_tables
              /\ binlog[i].table \in Range(tables)
           THEN pc' = "handle" /\ event' = i
           ELSE pc' = "iter" /\ event' = 0
    /\ UNCHANGED <<settings, unitVars, exitCode, tables, position, syncPosition,
                   todo, tableSchemas, reconnectDelay, outcome, positionFile,
                   envVars, sink, clock, obs>>

\* A row image as the binlog reader delivers it: a dict keyed by column name,
\* here the sequence of its (name, value) items in iteration order
RowImage(k, v) == <<<<SourceColumns[1], k>>, <<SourceColumns[2], v>>>>

\* the event object the reader builds from a row event of the binlog: each of
\* its rows carries `values`, or `before_values` and `after_values`
RowsEvent(ev) ==
    [table |-> ev.table, type |-> ev.type,
     rows |-> IF ev.type = "update"
              THEN <<[before_values |-> RowImage(ev.key, ev.old),
                      after_values |-> RowImage(ev.key, ev.val)]>>
              ELSE <<[values |-> RowImage(ev.key, ev.val)]>>]

\* list(d.values()): the values of a dict in its iteration order
DictValues(d) == [i \in 1..Len(d) |-> d[i][2]]

\* _get_table_columns: the cache after the call; a table that is not cached
\* is described first
GetTableColumns(cache, t) ==
    [x \in DOMAIN cache \cup {t} |->
        IF x \in DOMAIN cache THEN cache[x] ELSE SourceColumns]

\* columns + ["_version", "_deleted"]
AllColumns(columns) == columns \o <<"_version", "_deleted">>

\* _process_write_event / _process_update_event / _process_delete_event:
\* the tuples built, one per row of the event, from the values of a row
\* image, the version and the soft-delete flag
ProcessWriteEvent(ev, version) ==
    [i \in 1..Len(ev.rows) |-> DictValues(ev.rows[i].values) \o <<version, 0>>]

\* (variant: the tuples are built from the before image)
ProcessUpdateEventBefore(ev, version) ==
    [i \in 1..Len(ev.rows) |->
        DictValues(ev.rows[i].before_values) \o <<version, 0>>]

ProcessUpdateEvent(ev, version) ==
    [i \in 1..Len(ev.rows) |->
        DictValues(ev.rows[i].after_values) \o <<version, 0>>]

ProcessDeleteEvent(ev, version) ==
    [i \in 1..Len(ev.rows) |-> DictValues(ev.rows[i].values) \o <<version, 1>>]

\* run(), lines 322-330: dispatch on the event class
HandlerRows(ev, version) ==
    IF ev.type = "write" THEN ProcessWriteEvent(ev, version)
    ELSE IF ev.type = "update" THEN ProcessUpdateEvent(ev, version)
    ELSE IF ev.type = "delete" THEN ProcessDeleteEvent(ev, version)
    ELSE <<>>

\* the rows the handler of binlog record ev hands to the sink
EventRows(ev, version) == Range(HandlerRows(RowsEvent(ev), version))

\* the position the periodic save writes: where the stream stands
PeriodicPosition(st) == StreamPosition(st)

\* run(), lines 322-343: the handler inserts the rows of the event, then the
\* position is saved if more than 5 s passed since the last periodic save
HandleEvent ==
    /\ pc = "handle"
    /\ clock < MaxClock
    /\ LET ev == binlog[event]
           t == ev.table IN
        /\ tableSchemas' = GetTableColumns(tableSchemas, t)
        /\ sink' = [sink EXCEPT ![t] = @ \cup EventRows(ev, clock)]
        /\ \E elapsed \in BOOLEAN :
             /\ IF elapsed
                THEN /\ positionFile' = SavePosition(PeriodicPosition(stream[1]))
                     /\ position' = Some(PeriodicPosition(stream[1]))
                ELSE UNCHANGED <<positionFile, position>>
             /\ obs' = [obs EXCEPT
                  !.inserted = @ \cup {event},
                  !.session = Append(@, event),
                  !.described = IF t \in DOMAIN tableSchemas THEN @ ELSE @ \cup {t},
                  !.saved = IF elapsed THEN Some(PeriodicPosition(stream[1])) ELSE @]
    /\ clock' = clock + 1
    /\ event' = 0
    /\ pc' = "iter"
    /\ UNCHANGED <<settings, unitVars, exitCode, tables, syncPosition, todo,
                   stream, reconnectDelay, outcome, envVars>>

\* an exception leaves the handler before its insert took effect: an
\* OperationalError or OSError ("transport"), or any other Exception ("fatal")
HandleFails ==
    /\ pc = "handle"
    /\ \E kind \in {"transport", "fatal"} : outcome' = kind
    /\ pc' = "cleanup"
    /\ UNCHANGED <<settings, unitVars, exitCode, tables, position, syncPosition,
                   todo, stream, event, tableSchemas, reconnectDelay,
                   positionFile, envVars, sink, clock, obs>>

\* an exception leaves the iteration of the stream while it waits for an event
StreamFails ==
    /\ pc = "iter"
    /\ \E kind \in {"transport", "fatal"} : outcome' = kind
    /\ pc' = "cleanup"
    /\ UNCHANGED <<settings, unitVars, exitCode, tables, position, syncPosition,
                   todo, stream, event, tableSchemas, reconnectDelay,
                   positionFile, envVars, sink, clock, obs>>

\* KeyboardInterrupt inside the try block of run(), lines 353-355
InterruptStreaming ==
    /\ pc \in {"iter", "handle"}
    /\ outcome' = "interrupt"
    /\ pc' = "cleanup"
    /\ obs' = [obs EXCEPT !.signalled = TRUE]
    /\ UNCHANGED <<settings, unitVars, exitCode, tables, position, syncPosition,
                   todo, stream, event, tableSchemas, reconnectDelay,
                   positionFile, envVars, sink, clock>>

\* main(), lines 81-97, and the interpreter: 0 when run() returned, 1 when
\* an Exception reached main(), and the status of a process ended by SIGINT
\* when a KeyboardInterrupt, which is no Exception, leaves main()
MainExit(end) ==
    IF end = "returned" THEN 0 ELSE IF end = "raised" THEN 1 ELSE 130

\* KeyboardInterrupt outside the try block of run(): nothing catches it
InterruptElsewhere ==
    /\ pc \in {"start", "sync_position", "sync_schema", "sync_copy",
               "sync_save", "prime", "open", "sleep"}
    /\ pc' = "interrupted"
    /\ exitCode' = MainExit("interrupted")
    /\ Gone
    /\ obs' = [FreshRun(obs) EXCEPT !.signalled = TRUE]
    /\ UNCHANGED <<settings, unitVars, positionFile, envVars, sink, clock>>

\* (variant: the finally block saves the position its stream was opened at)
FinallyPositionOpened(st, old) == StreamPosition(obs.lastOpen[1])

\* a finally block that persists the local `position` again
FinallyPositionStale(st, old) == old[1]

\* the position the finally block persists, given the stream and the local
\* `position`: the stream's current (log_file, log_pos)
FinallyPosition(st, old) == StreamPosition(st)

\* a loop that reconnects after every exception
AfterPassAlwaysReconnect(how) ==
    IF how = "interrupt" THEN "returned" ELSE "sleep"

\* a loop that recovers nothing
AfterPassNeverReconnect(how) ==
    IF how = "interrupt" THEN "returned" ELSE "raised"

\* (variant: the loop is left as well when the stream ended by itself)
AfterPassReturnAtEnd(how) ==
    IF how = "fatal" THEN "raised"
    ELSE IF how \in {"interrupt", "ended"} THEN "returned"
    ELSE "sleep"

\* where run() goes after the finally block, lines 364-366 and 389-398
AfterPass(how) ==
    IF how = "fatal" THEN "raised"
    ELSE IF how = "interrupt" THEN "returned"
    ELSE "sleep"

\* run(), lines 367-395: persist the stream's position, close the stream,
\* then re-raise, return, or go on to the backoff sleep
Cleanup ==
    /\ pc = "cleanup"
    /\ LET pos == FinallyPosition(stream[1], position) IN
        /\ positionFile' = SavePosition(pos)
        /\ position' = Some(pos)
        /\ obs' = [obs EXCEPT !.saved = Some(pos)]
    /\ stream' = None
    /\ pc' = AfterPass(outcome)
    /\ exitCode' = IF AfterPass(outcome) \in {"raised", "returned"}
                   THEN MainExit(AfterPass(outcome)) ELSE exitCode
    /\ UNCHANGED <<settings, unitVars, tables, syncPosition, todo, event,
                   tableSchemas, reconnectDelay, outcome, envVars, sink, clock>>

\* run(), lines 398-401, at most n times in one run
Backoff(n) ==
    /\ pc = "sleep"
    /\ obs.reopens < n
    /\ obs' = [obs EXCEPT !.reopens = @ + 1, !.slept = reconnectDelay]
    /\ reconnectDelay' = NextDelay(reconnectDelay)
    /\ pc' = "open"
    /\ UNCHANGED <<settings, unitVars, exitCode, tables, position, syncPosition,
                   todo, stream, event, tableSchemas, outcome, positionFile,
                   envVars, sink, clock>>

Sleep == Backoff(MaxReopens)

----------------------------------------------------------------------------
(* The process *)

\* the process is killed: no handler runs
Kill ==
    /\ pc \notin Terminal
    /\ pc' = "killed"
    /\ exitCode' = 137
    /\ Gone
    /\ obs' = FreshRun(obs)
    /\ UNCHANGED <<settings, unitVars, positionFile, envVars, sink, clock>>

\* main() is started again: the checkpoint file and the sink are what is left
Restart ==
    /\ pc \in Terminal
    /\ pc' = "start"
    /\ exitCode' = -1
    /\ Gone
    /\ obs' = FreshRun(obs)
    /\ UNCHANGED <<settings, unitVars, positionFile, envVars, sink, clock>>

Next ==
    \/ SourceInsert \/ SourceUpdate \/ SourceDelete
    \/ Start \/ SyncCapturePosition \/ EnsureCdcSchema \/ SyncTable \/ SyncSave
    \/ LoadTableSchemas
    \/ OpenStream \/ FetchEvent \/ HandleEvent \/ HandleFails \/ StreamFails
    \/ InterruptStreaming \/ InterruptElsewhere \/ Cleanup \/ Sleep
    \/ Kill \/ Restart

Spec == Init /\ [][Next]_vars

----------------------------------------------------------------------------
(* One run() that is neither killed nor restarted, with the configured table *)
(* list and no checkpoint file, followed through its reconnects              *)

SleepLong == Backoff(MaxBackoffs)

InitBackoff ==
    /\ Init
    /\ settings = [tables |-> <<"t1">>, drop_existing |-> FALSE]
    /\ positionFile = AbsentFile

NextBackoff ==
    \/ SourceInsert \/ SourceUpdate \/ SourceDelete
    \/ Start \/ SyncCapturePosition \/ EnsureCdcSchema \/ SyncTable \/ SyncSave
    \/ OpenStream \/ FetchEvent \/ HandleEvent \/ HandleFails \/ StreamFails
    \/ InterruptStreaming \/ InterruptElsewhere \/ Cleanup \/ SleepLong

SpecBackoff == InitBackoff /\ [][NextBackoff]_vars

----------------------------------------------------------------------------
(* The event handlers and the initial copy on their own.  The reader hands  *)
(* over row events whose row images are dicts in the column order the       *)
(* source table has when the event is written, which after an ALTER TABLE   *)
(* is not the order cached in _table_schemas; the wall clock read by        *)
(* _get_version_timestamp ticks, stands still, or is set back.              *)

\* largest reading of the wall clock
MaxWallClock == 2
\* number of row events handled
MaxInserts == 2

\* the table the events belong to
EventTable == SourceTables[1]

\* row images: in the cached column order, in another order, and with a
\* column the cached schema does not have
ReorderedImage == <<<<SourceColumns[2], "b">>, <<SourceColumns[1], "k1">>>>
WidenedImage == RowImage("k1", "a") \o <<<<"extra", "x">>>>

\* the row events the reader delivers; one of them has no rows
WriteRowsEvents ==
    {[table |-> EventTable, type |-> "write", rows |-> r] :
        r \in {<<>>,
                <<[values |-> RowImage("k1", "b")]>>,
                <<[values |-> ReorderedImage]>>,
                <<[values |-> WidenedImage]>>,
                <<[values |-> RowImage("k1", "a")],
                  [values |-> RowImage("k2", "b")]>>}}

UpdateRowsEvents ==
    {[table |-> EventTable, type |-> "update", rows |-> r] :
        r \in {<<[before_values |-> RowImage("k1", "a"),
                  after_values |-> RowImage("k1", "b")]>>,
                <<[before_values |-> RowImage("k1", "a"),
                  after_values |-> ReorderedImage]>>}}

DeleteRowsEvents ==
    {[table |-> EventTable, type |-> "delete", rows |-> r] :
        r \in {<<[values |-> RowImage("k1", "a")]>>}}

\* a batch of fetch_data_batched: the rows read, in the order the cursor
\* returns them
RECURSIVE Batch(_)
Batch(rows) ==
    IF rows = {} THEN <<>>
    ELSE LET r == CHOOSE x \in rows : TRUE IN <<r>> \o Batch(rows \ {r})

\* the process starts streaming with the schema cache filled, by
\* _ensure_cdc_schema or by _load_table_schemas
InitHandlers ==
    /\ settings = [tables |-> <<EventTable>>, drop_existing |-> FALSE]
    /\ pc = "iter"
    /\ exitCode = -1
    /\ tables = <<EventTable>>
    /\ position = None
    /\ syncPosition = None
    /\ todo = <<>>
    /\ stream = None
    /\ event = 0
    /\ tableSchemas = GetTableColumns(<<>>, EventTable)
    /\ reconnectDelay = 1
    /\ outcome = "none"
    /\ positionFile = AbsentFile
    /\ binlog = <<>>
    /\ source = InitialSource
    /\ sink = [t \in Range(SourceTables) |-> {}]
    /\ clock \in 0..MaxWallClock
    /\ obs = InitObs
    /\ inserts = <<>>
    /\ handled = <<>>
    /\ TimerAtRest
    /\ SnapshotAtRest
    /\ ValidatorAtRest
    /\ AdaptersAtRest
    /\ ReleaseAtRest
    /\ ConverterAtRest

\* the variables the handlers leave alone
handlerFrame == <<settings, pc, exitCode, tables, position, syncPosition, todo,
                  stream, event, reconnectDelay, outcome, positionFile, binlog,
                  source, sink, obs, timerVars, snapshotVars, validatorVars,
        adapterVars,
        releaseVars,
        converterVars>>

\* _get_version_timestamp
GetVersionTimestamp == clock

\* _sync_table_with_cdc_columns for a table whose rows fit in one batch:
\* one insert_data call with the rows read, each extended by (version, 0)
SyncTableWithCdcColumns ==
    /\ inserts = <<>>
    /\ LET rows == Batch(SnapshotRows(EventTable, GetVersionTimestamp)) IN
        inserts' = <<[table |-> EventTable,
                      columns |-> AllColumns(SourceColumns),
                      rows |-> rows,
                      cause |-> [type |-> "sync"]]>>
    /\ UNCHANGED <<handlerFrame, tableSchemas, clock, handled>>

\* a handler that calls insert_data once for every row of the event
ProcessRowsEventRowByRow(ev) ==
    /\ Len(handled) < MaxInserts
    /\ LET cache == GetTableColumns(tableSchemas, ev.table)
           rows == HandlerRows(ev, GetVersionTimestamp) IN
        /\ tableSchemas' = cache
        /\ inserts' = inserts \o [i \in 1..Len(rows) |->
                                     [table |-> ev.table,
                                      columns |-> AllColumns(cache[ev.table]),
                                      rows |-> <<rows[i]>>,
                                      cause |-> ev]]
        /\ handled' = Append(handled, [event |-> ev, count |-> Len(rows)])
    /\ UNCHANGED <<handlerFrame, clock>>

\* one of the three handlers, called by run() for a row event: the cached
\* columns, one version for the event, one tuple per row, one insert_data call
ProcessRowsEvent(ev) ==
    /\ Len(handled) < MaxInserts
    /\ LET cache == GetTableColumns(tableSchemas, ev.table)
           rows == HandlerRows(ev, GetVersionTimestamp) IN
        /\ tableSchemas' = cache
        /\ inserts' = IF rows = <<>> THEN inserts
                      ELSE Append(inserts,
                               [table |-> ev.table,
                                columns |-> AllColumns(cache[ev.table]),
                                rows |-> rows,
                                cause |-> ev])
        /\ handled' = Append(handled, [event |-> ev, count |-> Len(rows)])
    /\ UNCHANGED <<handlerFrame, clock>>

HandleWriteRows == \E ev \in WriteRowsEvents : ProcessRowsEvent(ev)
HandleUpdateRows == \E ev \in UpdateRowsEvents : ProcessRowsEvent(ev)
HandleDeleteRows == \E ev \in DeleteRowsEvents : ProcessRowsEvent(ev)

\* the wall clock moves on
ClockTick ==
    /\ clock < MaxWallClock
    /\ clock' = clock + 1
    /\ UNCHANGED <<handlerFrame, tableSchemas, inserts, handled>>

\* the wall clock is set back (a clock step by NTP or by the operator)
ClockSetBack ==
    /\ \E t \in 0..MaxWallClock : t < clock /\ clock' = t
    /\ UNCHANGED <<handlerFrame, tableSchemas, inserts, handled>>

NextHandlers ==
    \/ SyncTableWithCdcColumns
    \/ HandleWriteRows \/ HandleUpdateRows \/ HandleDeleteRows
    \/ ClockTick \/ ClockSetBack

SpecHandlers == InitHandlers /\ [][NextHandlers]_vars

----------------------------------------------------------------------------
(* The periodic save of run() with the time made explicit: the wall clock  *)
(* is counted in seconds, every event is of a replicated table, and a pass *)
(* ends by a transport error                                               *)

\* last second of the wall clock that is followed
MaxSeconds == 7
\* number of row events the stream delivers
MaxTimedEvents == 2

\* run(), line 335: the period of the save, in seconds
SavePeriodSeconds == 5

\* (variant: the period taken as milliseconds)
SaveIsDueInMillis(now, last) == now - last > SavePeriodSeconds * 1000

\* run(), line 335: time.time() - last_save_time > 5
SaveIsDue(now, last) == now - last > SavePeriodSeconds

\* either the process finds no checkpoint and is at the end of initial_sync,
\* about to write the file, or it finds the checkpoint an earlier process
\* wrote and is about to enter the loop
InitTimer ==
    /\ settings = [tables |-> <<EventTable>>, drop_existing |-> FALSE]
    /\ exitCode = -1
    /\ tables = <<EventTable>>
    /\ \/ /\ pc = "sync_save"
          /\ positionFile = AbsentFile
          /\ position = None
          /\ syncPosition = Some(LogPos(0))
       \/ /\ pc = "enter"
          /\ positionFile = SavePosition(LogPos(0))
          /\ position = LoadPosition(SavePosition(LogPos(0)))
          /\ syncPosition = None
    /\ todo = <<>>
    /\ stream = None
    /\ event = 0
    /\ tableSchemas = GetTableColumns(<<>>, EventTable)
    /\ reconnectDelay = 1
    /\ outcome = "none"
    /\ binlog = <<>>
    /\ source = InitialSource
    /\ sink = [t \in Range(SourceTables) |-> {}]
    /\ clock = 0
    /\ obs = InitObs
    /\ HandlersAtRest
    /\ TimerAtRest
    /\ SnapshotAtRest
    /\ ValidatorAtRest
    /\ AdaptersAtRest
    /\ ReleaseAtRest
    /\ ConverterAtRest

\* the variables the timed actions leave alone
timerFrame == <<settings, exitCode, tables, todo, tableSchemas, outcome,
                binlog, source, sink, obs, handlerVars, snapshotVars,
                validatorVars,
        adapterVars,
        releaseVars,
        converterVars>>

\* initial_sync(), line 247, then run(), line 294
TimedSyncSave ==
    /\ pc = "sync_save"
    /\ positionFile' = SavePosition(PositionToPersist)
    /\ position' = LoadPosition(SavePosition(PositionToPersist))
    /\ stamps' = [stamps EXCEPT !.written = clock]
    /\ pc' = "enter"
    /\ UNCHANGED <<timerFrame, syncPosition, stream, event, reconnectDelay,
                   clock, lastSaveTime>>

\* run(), line 306
TimedEnterLoop ==
    /\ pc = "enter"
    /\ lastSaveTime' = clock
    /\ stamps' = [stamps EXCEPT !.entered = clock]
    /\ pc' = "open"
    /\ UNCHANGED <<timerFrame, position, syncPosition, stream, event,
                   reconnectDelay, positionFile, clock>>

\* run(), line 313
TimedOpenStream ==
    /\ pc = "open"
    /\ stream' = Some(CreateBinlogStream(position, Range(tables), 0))
    /\ pc' = "iter"
    /\ UNCHANGED <<timerFrame, position, syncPosition, event, reconnectDelay,
                   positionFile, clock, timerVars>>

\* run(), line 316: the reader hands out the next event
TimedFetchEvent ==
    /\ pc = "iter"
    /\ LET i == LogIndex(StreamPosition(stream[1])) + 1 IN
        /\ i <= MaxTimedEvents
        /\ stream' = Some(Advance(stream[1], i))
        /\ event' = i
    /\ pc' = "handle"
    /\ UNCHANGED <<timerFrame, position, syncPosition, reconnectDelay,
                   positionFile, clock, timerVars>>

\* run(), lines 322-343: the handler returns, then the position is saved
\* if the save is due
TimedEventProcessed ==
    /\ pc = "handle"
    /\ IF SaveIsDue(clock, lastSaveTime)
       THEN /\ positionFile' = SavePosition(PeriodicPosition(stream[1]))
            /\ position' = Some(PeriodicPosition(stream[1]))
            /\ lastSaveTime' = clock
            /\ stamps' = [stamps EXCEPT !.written = clock, !.periodic = clock]
       ELSE UNCHANGED <<positionFile, position, lastSaveTime, stamps>>
    /\ event' = 0
    /\ pc' = "iter"
    /\ UNCHANGED <<timerFrame, syncPosition, stream, reconnectDelay, clock>>

\* run(), lines 356-387: an OperationalError or OSError ends the pass; the
\* finally block saves the position of the stream and closes it
TimedDisconnect ==
    /\ pc \in {"iter", "handle"}
    /\ LET pos == FinallyPosition(stream[1], position) IN
        /\ positionFile' = SavePosition(pos)
        /\ position' = Some(pos)
    /\ stamps' = [stamps EXCEPT !.written = clock]
    /\ stream' = None
    /\ event' = 0
    /\ pc' = "sleep"
    /\ UNCHANGED <<timerFrame, syncPosition, reconnectDelay, clock,
                   lastSaveTime>>

\* run(), lines 398-401: time.sleep(reconnect_delay_seconds)
TimedSleep ==
    /\ pc = "sleep"
    /\ clock + reconnectDelay <= MaxSeconds
    /\ clock' = clock + reconnectDelay
    /\ reconnectDelay' = NextDelay(reconnectDelay)
    /\ pc' = "open"
    /\ UNCHANGED <<timerFrame, position, syncPosition, stream, event,
                   positionFile, timerVars>>

\* a second passes
TimedTick ==
    /\ clock < MaxSeconds
    /\ clock' = clock + 1
    /\ UNCHANGED <<timerFrame, pc, position, syncPosition, stream, event,
                   reconnectDelay, positionFile, timerVars>>

NextTimer ==
    \/ TimedSyncSave \/ TimedEnterLoop \/ TimedOpenStream \/ TimedFetchEvent
    \/ TimedEventProcessed \/ TimedDisconnect \/ TimedSleep \/ TimedTick

SpecTimer == InitTimer /\ [][NextTimer]_vars

----------------------------------------------------------------------------
(* Snapshot mode: Replicator.run() as called by run_snapshot_mode.  The     *)
(* source keeps changing while the tables are copied, a target table can    *)
(* hold rows of an earlier run, and every step of replicate_table can       *)
(* raise.  A target table is a plain MergeTree table, which keeps every row *)
(* inserted: here the sequence of its rows.  The database is created and    *)
(* the tables are listed without error.                                     *)

\* REPLICATION_BATCH_SIZE
BatchSize == 1

\* REPLICATION_TABLES, REPLICATION_DROP_EXISTING, REPLICATION_PARALLEL_TABLES
SnapshotSettings ==
    {[tables |-> ts, drop_existing |-> d, parallel_tables |-> p] :
        ts \in {<<>>, <<"t2", "t1">>}, d \in BOOLEAN, p \in {1, 2}}

\* the rows of source table t, as fetch_data_batched builds them
SourceRows(t) ==
    {<<k, source[t][k]>> : k \in {x \in Keys : source[t][x] # Absent}}

\* MySQLClient.get_row_count
GetRowCount(t) == Cardinality(SourceRows(t))

\* a row left in a target table by an earlier run
StaleRow == <<"k1", "old">>

InitSnapshot ==
    /\ settings \in SnapshotSettings
    /\ pc = "start"
    /\ exitCode = -1
    /\ tables = <<>>
    /\ position = None
    /\ syncPosition = None
    /\ todo = <<>>
    /\ stream = None
    /\ event = 0
    /\ tableSchemas = <<>>
    /\ reconnectDelay = 1
    /\ outcome = "none"
    /\ positionFile = AbsentFile
    /\ binlog = <<>>
    /\ source = InitialSource
    /\ sink \in {[t \in Range(SourceTables) |-> <<>>],
                 [t \in Range(SourceTables) |->
                     IF t = SourceTables[1] THEN <<StaleRow>> ELSE <<>>]}
    /\ clock = 0
    /\ obs = InitObs
    /\ HandlersAtRest
    /\ TimerAtRest
    /\ SnapshotAtRest
    /\ ValidatorAtRest
    /\ AdaptersAtRest
    /\ ReleaseAtRest
    /\ ConverterAtRest

\* the variables snapshot mode leaves alone
snapshotFrame == <<settings, position, syncPosition, todo, stream, event,
                   tableSchemas, reconnectDelay, outcome, positionFile,
                   clock, obs, handlerVars, timerVars, validatorVars,
        adapterVars,
        releaseVars,
        converterVars>>

\* a replicate_table call that has not begun
QueuedTask ==
    [pc |-> "queued", source_rows |-> 0, rows_inserted |-> 0, cursor |-> <<>>]

\* Replicator.run(), lines 96-103
SnapshotStart ==
    /\ pc = "start"
    /\ tables' = GetTables(settings)
    /\ tasks' = [t \in Range(GetTables(settings)) |-> QueuedTask]
    /\ pc' = "running"
    /\ UNCHANGED <<snapshotFrame, exitCode, envVars, sink, results>>

\* run() is at table t of its replication set
Visiting(t) == pc = "running" /\ t \in Range(tables)

Running(t) == tasks[t].pc \in {"ddl", "select", "copy", "verify"}
Finished(t) == tasks[t].pc \in {"done", "failed"}

\* (variant: a queued call begins whatever the other calls are doing)
MayStartAtOnce(t) == tasks[t].pc = "queued"

\* the replicate_table call of t can begin: in the for loop when the calls
\* of the tables before it have ended, in the pool when the tables before
\* it have been taken and one of the max_workers threads is free
MayStart(t) ==
    LET i == CHOOSE x \in 1..Len(tables) : tables[x] = t IN
    /\ tasks[t].pc = "queued"
    /\ IF settings.parallel_tables <= 1
       THEN \A j \in 1..(i - 1) : Finished(tables[j])
       ELSE /\ \A j \in 1..(i - 1) : tasks[tables[j]].pc # "queued"
            /\ Cardinality({u \in Range(tables) : Running(u)})
                  < settings.parallel_tables

\* the adapters a replicate_table call works with: those of the Replicator
SourceAdapterOf(t) == "self.mysql"
SinkAdapterOf(t) == "self.clickhouse"

\* replicate_table, lines 68-69
StartTable(t) ==
    /\ Visiting(t)
    /\ MayStart(t)
    /\ tasks' = [tasks EXCEPT ![t].pc = "ddl",
                              ![t].source_rows = GetRowCount(t)]
    /\ UNCHANGED <<snapshotFrame, pc, exitCode, tables, envVars, sink, results>>

\* replicate_schema
ReplicateSchema(t) ==
    /\ Visiting(t)
    /\ tasks[t].pc = "ddl"
    /\ sink' = [sink EXCEPT ![t] = IF settings.drop_existing THEN <<>> ELSE @]
    /\ tasks' = [tasks EXCEPT ![t].pc = "select"]
    /\ UNCHANGED <<snapshotFrame, pc, exitCode, tables, envVars, results>>

\* replicate_data, line 54, and fetch_data_batched, lines 149-150: the
\* SELECT is executed on a streaming cursor of the connection
OpenCursor(t) ==
    /\ Visiting(t)
    /\ tasks[t].pc = "select"
    /\ tasks' = [tasks EXCEPT ![t].pc = "copy",
                              ![t].cursor = Batch(SourceRows(t))]
    /\ UNCHANGED <<snapshotFrame, pc, exitCode, tables, envVars, sink, results>>

\* replicate_data, lines 54-57: the next batch is read and inserted
CopyBatch(t) ==
    /\ Visiting(t)
    /\ tasks[t].pc = "copy"
    /\ tasks[t].cursor # <<>>
    /\ LET n == Min(BatchSize, Len(tasks[t].cursor))
           batch == SubSeq(tasks[t].cursor, 1, n) IN
        /\ sink' = [sink EXCEPT ![t] = @ \o batch]
        /\ tasks' = [tasks EXCEPT
              ![t].rows_inserted = @ + Len(batch),
              ![t].cursor = SubSeq(@, n + 1, Len(@))]
    /\ UNCHANGED <<snapshotFrame, pc, exitCode, tables, envVars, results>>

\* fetch_data_batched is exhausted and its cursor closed
EndOfData(t) ==
    /\ Visiting(t)
    /\ tasks[t].pc = "copy"
    /\ tasks[t].cursor = <<>>
    /\ tasks' = [tasks EXCEPT ![t].pc = "verify"]
    /\ UNCHANGED <<snapshotFrame, pc, exitCode, tables, envVars, sink, results>>

\* (variant: success compares the source count with the rows inserted)
SuccessByRowsInserted(source_count, rows_inserted, target_count) ==
    source_count = rows_inserted

\* replicate_table, line 81
ReplicateTableSuccess(source_count, rows_inserted, target_count) ==
    source_count = target_count

\* replicate_table, lines 74-85: the target is counted and the record built
CountTarget(t) ==
    /\ Visiting(t)
    /\ tasks[t].pc = "verify"
    /\ LET target_count == Len(sink[t]) IN
        results' = Append(results,
            [table |-> t,
             source_rows |-> tasks[t].source_rows,
             rows_inserted |-> tasks[t].rows_inserted,
             target_rows |-> target_count,
             success |-> ReplicateTableSuccess(tasks[t].source_rows,
                             tasks[t].rows_inserted, target_count)])
    /\ tasks' = [tasks EXCEPT ![t].pc = "done"]
    /\ UNCHANGED <<snapshotFrame, pc, exitCode, tables, envVars, sink>>

\* (variant: the exception of a table is not caught)
OnTableErrorRaise(rs, t) == [raised |-> TRUE, results |-> rs]

\* run(), lines 111-113, and _safe_replicate_table, lines 139-141
OnTableError(rs, t) ==
    [raised |-> FALSE,
     results |-> Append(rs, [table |-> t, success |-> FALSE,
                             error |-> "error"])]

\* a step of replicate_table raises an Exception: get_table_schema or
\* get_row_count when the call begins, or any later step
TableFails(t) ==
    /\ Visiting(t)
    /\ MayStart(t) \/ Running(t)
    /\ LET o == OnTableError(results, t) IN
        /\ results' = o.results
        /\ pc' = IF o.raised THEN "raised" ELSE pc
        /\ exitCode' = IF o.raised THEN MainExit("raised") ELSE exitCode
    /\ tasks' = [tasks EXCEPT ![t].pc = "failed", ![t].cursor = <<>>]
    /\ UNCHANGED <<snapshotFrame, tables, envVars, sink>>

\* run_snapshot_mode, lines 38-47
RunSnapshotMode(rs) ==
    IF \E i \in 1..Len(rs) : ~ rs[i].success THEN 1 ELSE 0

\* run(), lines 125-133: every table has been visited, or every future has
\* completed; run_snapshot_mode turns the records into the exit code
SnapshotReturn ==
    /\ pc = "running"
    /\ \A t \in Range(tables) : Finished(t)
    /\ pc' = "returned"
    /\ exitCode' = RunSnapshotMode(results)
    /\ UNCHANGED <<snapshotFrame, tables, envVars, sink, snapshotVars>>

NextSnapshot ==
    \/ SourceInsert \/ SourceUpdate \/ SourceDelete
    \/ SnapshotStart
    \/ \E t \in Range(SourceTables) :
          \/ StartTable(t) \/ ReplicateSchema(t) \/ OpenCursor(t)
          \/ CopyBatch(t) \/ EndOfData(t) \/ CountTarget(t) \/ TableFails(t)
    \/ SnapshotReturn

SpecSnapshot == InitSnapshot /\ [][NextSnapshot]_vars

----------------------------------------------------------------------------
(* _validate_identifier of mysql_client.py and clickhouse_client.py, alone *)

\* length of the longest candidate identifier
MaxNameLen == 3

\* one character of each kind the pattern tells apart: ASCII letters of both
\* cases, a digit, the underscore, a semicolon, a newline and a letter
\* outside ASCII
AsciiLetters == {"a", "Z"}
AsciiDigits == {"7"}
Newline == "\n"
Characters == AsciiLetters \cup AsciiDigits \cup {"_", ";", Newline, "U+00E9"}

\* the strings passed as name, and the labels passed as context
Names == UNION {[1..n -> Characters] : n \in 0..MaxNameLen}
Contexts == {"table name", "column name"}

\* [a-zA-Z_]
IdentifierStart(c) == c \in AsciiLetters \cup {"_"}
\* [a-zA-Z0-9_]
IdentifierChar(c) == c \in AsciiLetters \cup AsciiDigits \cup {"_"}

\* ^[a-zA-Z_][a-zA-Z0-9_]* : the lengths of the prefixes of name it matches
PatternPrefixes(name) ==
    {n \in 1..Len(name) :
        IdentifierStart(name[1]) /\ \A i \in 2..n : IdentifierChar(name[i])}

\* $ of a pattern compiled without re.MULTILINE: the end of the string, or
\* the place just before a newline that is the last character of the string
AtDollar(name, n) ==
    \/ n = Len(name)
    \/ n = Len(name) - 1 /\ name[Len(name)] = Newline

\* _VALID_IDENTIFIER.match(name) finds a match
ValidIdentifierMatch(name) ==
    \E n \in PatternPrefixes(name) : AtDollar(name, n)

\* _validate_identifier(name, context): what it raises, the string it returns
\* or quotes in its message, and the context its message names
ValidateIdentifier(name, context) ==
    IF Len(name) = 0
    THEN [raised |-> "Empty", value |-> <<>>, context |-> context]
    ELSE IF ~ValidIdentifierMatch(name)
    THEN [raised |-> "Invalid", value |-> name, context |-> context]
    ELSE [raised |-> "nothing", value |-> name, context |-> ""]

InitValidator ==
    /\ settings = [tables |-> <<>>, drop_existing |-> FALSE]
    /\ pc = "start"
    /\ exitCode = -1
    /\ tables = <<>>
    /\ position = None
    /\ syncPosition = None
    /\ todo = <<>>
    /\ stream = None
    /\ event = 0
    /\ tableSchemas = <<>>
    /\ reconnectDelay = 1
    /\ outcome = "none"
    /\ positionFile = AbsentFile
    /\ binlog = <<>>
    /\ source = InitialSource
    /\ sink = [t \in Range(SourceTables) |-> {}]
    /\ clock = 0
    /\ obs = InitObs
    /\ HandlersAtRest
    /\ TimerAtRest
    /\ SnapshotAtRest
    /\ identifier \in [name : Names, context : Contexts]
    /\ verdict = NoVerdict
    /\ AdaptersAtRest
    /\ ReleaseAtRest
    /\ ConverterAtRest

\* the variables a call of _validate_identifier leaves alone
validatorFrame == <<settings, pc, exitCode, tables, position, syncPosition,
                    todo, stream, event, tableSchemas, reconnectDelay, outcome,
                    positionFile, binlog, source, sink, clock, obs,
                    handlerVars, timerVars, snapshotVars, identifier,
        adapterVars,
        releaseVars,
        converterVars>>

\* mysql_client._validate_identifier(name, context)
MysqlValidateIdentifier ==
    /\ verdict = NoVerdict
    /\ verdict' = [adapter |-> "mysql_client"]
                  @@ ValidateIdentifier(identifier.name, identifier.context)
    /\ UNCHANGED validatorFrame

\* clickhouse_client._validate_identifier(name, context)
ClickhouseValidateIdentifier ==
    /\ verdict = NoVerdict
    /\ verdict' = [adapter |-> "clickhouse_client"]
                  @@ ValidateIdentifier(identifier.name, identifier.context)
    /\ UNCHANGED validatorFrame

NextValidator ==
    \/ MysqlValidateIdentifier
    \/ ClickhouseValidateIdentifier

SpecValidator == InitValidator /\ [][NextValidator]_vars

----------------------------------------------------------------------------
(* schema_converter.py: column types and the DDL generator *)

\* MYSQL_TO_CLICKHOUSE_TYPE_MAP
MYSQL_TO_CLICKHOUSE_TYPE_MAP ==
    [tinyint |-> "Int8", smallint |-> "Int16", mediumint |-> "Int32",
     int |-> "Int32", integer |-> "Int32", bigint |-> "Int64",
     float |-> "Float32", double |-> "Float64", decimal |-> "Decimal",
     numeric |-> "Decimal", bit |-> "UInt64", bool |-> "Bool",
     boolean |-> "Bool", date |-> "Date", datetime |-> "DateTime",
     timestamp |-> "DateTime", time |-> "String", year |-> "UInt16",
     char |-> "String", varchar |-> "String", binary |-> "String",
     varbinary |-> "String", tinyblob |-> "String", blob |-> "String",
     mediumblob |-> "String", longblob |-> "String", tinytext |-> "String",
     text |-> "String", mediumtext |-> "String", longtext |-> "String",
     enum |-> "String", set |-> "String", json |-> "String"]

\* str.lower() on the type names the model uses
Lower(s) ==
    CASE s = "DECIMAL" -> "decimal"
      [] s = "Numeric" -> "numeric"
      [] s = "BigInt" -> "bigint"
      [] s = "JSON" -> "json"
      [] OTHER -> s

\* `x or default` on an optional integer: None and 0 give the default
OrDefault(x, default) == IF x = None \/ x[1] = 0 THEN default ELSE x[1]

\* a ClickHouse type expression: a type name and its arguments
TypeExpr(name, args) == [name |-> name, args |-> args]

\* f"Nullable({ch_type})"
Nullable(ch_type) == TypeExpr("Nullable", <<ch_type>>)

\* convert_column_type, written without the Nullable wrapper
ConvertNeverNullable(column) ==
    LET mysql_type == Lower(column.data_type) IN
    IF mysql_type \in {"decimal", "numeric"}
    THEN TypeExpr("Decimal", <<OrDefault(column.numeric_precision, 10),
                               OrDefault(column.numeric_scale, 0)>>)
    ELSE IF mysql_type \in DOMAIN MYSQL_TO_CLICKHOUSE_TYPE_MAP
    THEN TypeExpr(MYSQL_TO_CLICKHOUSE_TYPE_MAP[mysql_type], <<>>)
    ELSE TypeExpr("String", <<>>)

\* SchemaConverter.convert_column_type
convert_column_type(column) ==
    LET mysql_type == Lower(column.data_type)
        ch_type ==
            IF mysql_type \in {"decimal", "numeric"}
            THEN TypeExpr("Decimal",
                          <<OrDefault(column.numeric_precision, 10),
                            OrDefault(column.numeric_scale, 0)>>)
            ELSE IF mysql_type \in DOMAIN MYSQL_TO_CLICKHOUSE_TYPE_MAP
            THEN TypeExpr(MYSQL_TO_CLICKHOUSE_TYPE_MAP[mysql_type], <<>>)
            ELSE TypeExpr("String", <<>>)
    IN  IF column.is_nullable THEN Nullable(ch_type) ELSE ch_type

\* one line of columns_def; interpolated tells a name put in by an f-string
\* from a name that is part of the literal text
ColumnDef(name, type, interpolated) ==
    [name |-> name, type |-> type, interpolated |-> interpolated]

\* the lines of columns_def for the columns of the schema
UserColumnDefs(schema) ==
    [i \in 1..Len(schema.columns) |->
        ColumnDef(schema.columns[i].name,
                  convert_column_type(schema.columns[i]), TRUE)]

\* the lines appended by generate_cdc_table
CdcColumnDefs ==
    <<ColumnDef("_version", TypeExpr("UInt64", <<>>), FALSE),
      ColumnDef("_deleted", TypeExpr("UInt8", <<>>), FALSE)>>

\* one entry of the ORDER BY list: a name in backticks or literal text
Quoted(name) == [quoted |-> TRUE, text |-> name]
Literal(text) == [quoted |-> FALSE, text |-> text]

\* order_by of generate_create_table and of generate_cdc_table
OrderBy(schema) ==
    IF schema.primary_keys # <<>>
    THEN [i \in 1..Len(schema.primary_keys) |->
             Quoted(schema.primary_keys[i])]
    ELSE IF schema.columns # <<>>
    THEN <<Quoted(schema.columns[1].name)>>
    ELSE <<Literal("tuple()")>>

\* SchemaConverter.generate_create_table
generate_create_table(schema, database) ==
    [statement |-> "CREATE TABLE IF NOT EXISTS",
     database |-> database,
     table |-> schema.name,
     columns |-> UserColumnDefs(schema),
     engine |-> "MergeTree()",
     order_by |-> OrderBy(schema)]

\* SchemaConverter.generate_drop_table
generate_drop_table(table_name, database) ==
    [statement |-> "DROP TABLE IF EXISTS",
     database |-> database,
     table |-> table_name,
     columns |-> <<>>,
     engine |-> "",
     order_by |-> <<>>]

\* generate_cdc_table with the CDC columns appended the other way round
CdcTableDeletedFirst(schema, database) ==
    [statement |-> "CREATE TABLE IF NOT EXISTS",
     database |-> database,
     table |-> schema.name,
     columns |-> UserColumnDefs(schema)
                 \o <<CdcColumnDefs[2], CdcColumnDefs[1]>>,
     engine |-> "ReplacingMergeTree(_version)",
     order_by |-> OrderBy(schema)]

\* SchemaConverter.generate_cdc_table
generate_cdc_table(schema, database) ==
    [statement |-> "CREATE TABLE IF NOT EXISTS",
     database |-> database,
     table |-> schema.name,
     columns |-> UserColumnDefs(schema) \o CdcColumnDefs,
     engine |-> "ReplacingMergeTree(_version)",
     order_by |-> OrderBy(schema)]

\* the SELECT list of generate_cdc_view
SelectList(schema) ==
    [i \in 1..Len(schema.columns) |-> schema.columns[i].name]

\* SchemaConverter.generate_cdc_view
generate_cdc_view(table_name, database, schema) ==
    [statement |-> "CREATE OR REPLACE VIEW",
     database |-> database,
     view |-> <<table_name, "_live">>,
     select |-> SelectList(schema),
     from |-> [database |-> database, table |-> table_name, final |-> TRUE],
     where |-> [column |-> "_deleted", equals |-> 0]]

\* the names an f-string of the generator put into a statement
InterpolatedNames(sql) ==
    {sql.database, sql.table}
    \cup {sql.columns[i].name :
            i \in {j \in 1..Len(sql.columns) : sql.columns[j].interpolated}}
    \cup {sql.order_by[i].text :
            i \in {j \in 1..Len(sql.order_by) : sql.order_by[j].quoted}}

----------------------------------------------------------------------------
(* The methods of MySQLClient and ClickHouseClient, and what they hand to
   the drivers *)

\* number of rows passed to insert_data
MaxRows == 2

\* config.database of either adapter: __init__ raises unless it is valid
Database == <<"Z">>
\* names passed as table_name
TableNames == {<<"a">>, <<"a", ";">>, <<"a", Newline>>, <<>>}
\* table names of the replication set: get_tables_list() and SHOW TABLES
\* give no empty name
ReplicatedTableNames == TableNames \ {<<>>}
\* lists passed as columns
ColumnLists ==
    {<< <<"a", "7">> >>, << <<"a", "7">>, <<"7">> >>, << <<"a", ";">> >>}
\* lists passed as data
DataLists == {[i \in 1..n |-> <<"v">>] : n \in 0..MaxRows}

\* a method returns value, or raises error, after the driver calls issued
Returned(value, issued) ==
    [raised |-> "nothing", value |-> value, issued |-> issued]
Raise(error, issued) ==
    [raised |-> error, value |-> None, issued |-> issued]

\* one call of a driver method; names are the identifiers that were put
\* into its SQL text or its table argument by an f-string
DriverCall(adapter, method, names) ==
    [adapter |-> adapter, method |-> method, names |-> names]

\* the driver is called: it returns value when it accepts the call, and
\* raises otherwise
Driver(adapter, method, names, accepts, value) ==
    IF accepts
    THEN Returned(value, <<DriverCall(adapter, method, names)>>)
    ELSE Raise("DriverError", <<DriverCall(adapter, method, names)>>)

\* what the first failing _validate_identifier call of a method raises,
\* the names being validated in this order; "nothing" if all are returned
FirstRejection(names) ==
    LET rejected == {i \in 1..Len(names) :
                        ValidateIdentifier(names[i], "").raised # "nothing"}
    IN  IF rejected = {} THEN "nothing"
        ELSE LET first == CHOOSE i \in rejected : \A j \in rejected : i <= j
             IN  ValidateIdentifier(names[first], "").raised

\* the body of a method that reads the connection property and makes one
\* driver call with names in its text, none of them validated
UncheckedCall(handle, adapter, method, names, accepts, value) ==
    IF handle = NoHandle THEN Raise("NotConnected", <<>>)
    ELSE Driver(adapter, method, Range(names), accepts, value)

\* the body of a method that validates names, reads the connection
\* property (MySQLClient.connection, ClickHouseClient.client) and makes one
\* driver call with these names in its text
CheckedCall(handle, adapter, method, names, accepts, value) ==
    IF FirstRejection(names) # "nothing"
    THEN Raise(FirstRejection(names), <<>>)
    ELSE IF handle = NoHandle THEN Raise("NotConnected", <<>>)
    ELSE Driver(adapter, method, Range(names), accepts, value)

\* MySQLClient.connection and ClickHouseClient.client
HandleProperty(handle) ==
    IF handle = NoHandle THEN Raise("NotConnected", <<>>)
    ELSE Returned(handle, <<>>)

\* MySQLClient.get_tables
MySQLClient_get_tables(handle, accepts) ==
    IF handle = NoHandle THEN Raise("NotConnected", <<>>)
    ELSE Driver("mysql", "execute", {}, accepts, "tables")

\* MySQLClient.get_table_schema: the names are query parameters
MySQLClient_get_table_schema(handle, table_name, accepts) ==
    IF handle = NoHandle THEN Raise("NotConnected", <<>>)
    ELSE Driver("mysql", "execute", {}, accepts, "schema")

\* MySQLClient.get_row_count
MySQLClient_get_row_count(handle, table_name, accepts) ==
    CheckedCall(handle, "mysql", "execute", <<table_name>>, accepts, "cnt")

\* MySQLClient.fetch_data_batched, iterated by its caller
MySQLClient_fetch_data_batched(handle, table_name, columns, accepts) ==
    CheckedCall(handle, "mysql", "execute", <<table_name>> \o columns,
                accepts, "batches")

\* ClickHouseClient.create_database
ClickHouseClient_create_database(handle, accepts) ==
    CheckedCall(handle, "clickhouse", "command", <<Database>>, accepts, None)

\* ClickHouseClient.execute_command; sql is a statement of the generator
ClickHouseClient_execute_command(handle, sql, accepts) ==
    IF handle = NoHandle THEN Raise("NotConnected", <<>>)
    ELSE Driver("clickhouse", "command", InterpolatedNames(sql), accepts,
                None)

\* ClickHouseClient.table_exists: the names are validated and then passed
\* as query parameters
ClickHouseClient_table_exists(handle, table_name, accepts) ==
    IF FirstRejection(<<table_name, Database>>) # "nothing"
    THEN Raise(FirstRejection(<<table_name, Database>>), <<>>)
    ELSE IF handle = NoHandle THEN Raise("NotConnected", <<>>)
    ELSE Driver("clickhouse", "query", {}, accepts, "exists")

\* ClickHouseClient.get_row_count
ClickHouseClient_get_row_count(handle, table_name, accepts) ==
    CheckedCall(handle, "clickhouse", "query", <<table_name, Database>>,
                accepts, "cnt")

\* ClickHouseClient.insert_data with the validation before the test of data
InsertDataValidatingFirst(handle, table_name, columns, data, accepts) ==
    IF FirstRejection(<<table_name, Database>> \o columns) # "nothing"
    THEN Raise(FirstRejection(<<table_name, Database>> \o columns), <<>>)
    ELSE IF Len(data) = 0 THEN Returned(0, <<>>)
    ELSE CheckedCall(handle, "clickhouse", "insert",
                     <<table_name, Database>> \o columns, accepts, Len(data))

\* ClickHouseClient.insert_data
ClickHouseClient_insert_data(handle, table_name, columns, data, accepts) ==
    IF Len(data) = 0 THEN Returned(0, <<>>)
    ELSE CheckedCall(handle, "clickhouse", "insert",
                     <<table_name, Database>> \o columns, accepts, Len(data))

\* ClickHouseClient.truncate_table
ClickHouseClient_truncate_table(handle, table_name, accepts) ==
    CheckedCall(handle, "clickhouse", "command", <<table_name, Database>>,
                accepts, None)

\* MySQLClient.connect and ClickHouseClient.connect
Connect(handle, adapter, accepts) ==
    Driver(adapter, "connect", {}, accepts, "Connection")

\* disconnect that closes without looking at the handle
DisconnectAlwaysCloses(handle, adapter, accepts) ==
    Driver(adapter, "close", {}, accepts, None)

\* MySQLClient.disconnect and ClickHouseClient.disconnect
Disconnect(handle, adapter, accepts) ==
    IF handle = NoHandle THEN Returned(None, <<>>)
    ELSE Driver(adapter, "close", {}, accepts, None)

\* the handle after connect: the new one unless the driver raised
HandleAfterConnect(handle, result) ==
    IF result.raised = "nothing" THEN result.value ELSE handle

\* the handle after disconnect: None unless close raised
HandleAfterDisconnect(handle, result) ==
    IF result.raised = "nothing" THEN NoHandle ELSE handle

\* second runs if first returned; the driver calls of both are kept
Then(first, second) ==
    IF first.raised # "nothing" THEN first
    ELSE [second EXCEPT !.issued = first.issued \o @]

\* the ColumnInfo list of a source table whose columns have these names;
\* the first column is the primary key when keyed
ColumnInfos(names, keyed) ==
    [i \in 1..Len(names) |->
        [name |-> names[i], data_type |-> "int", is_nullable |-> FALSE,
         column_key |-> IF keyed /\ i = 1 THEN "PRI" ELSE "",
         numeric_precision |-> Some(10), numeric_scale |-> Some(0)]]

\* primary_keys of get_table_schema: the names of the columns with key PRI
PrimaryKeys(columns) ==
    LET pri == {i \in 1..Len(columns) : columns[i].column_key = "PRI"} IN
    [n \in 1..Cardinality(pri) |->
        columns[CHOOSE i \in pri :
                    Cardinality({j \in pri : j <= i}) = n].name]

\* the TableSchema returned by get_table_schema
TableSchema(table_name, columns) ==
    [name |-> table_name, columns |-> columns,
     primary_keys |-> PrimaryKeys(columns)]

\* [col.name for col in schema.columns]
ColumnNames(schema) ==
    [i \in 1..Len(schema.columns) |-> schema.columns[i].name]

\* Replicator.replicate_schema
Replicator_replicate_schema(sink_handle, schema, drop_existing) ==
    Then(IF drop_existing
         THEN ClickHouseClient_execute_command(
                  sink_handle, generate_drop_table(schema.name, Database),
                  TRUE)
         ELSE Returned(None, <<>>),
         ClickHouseClient_execute_command(
             sink_handle, generate_create_table(schema, Database), TRUE))

\* Replicator.replicate_data, the source table holding the rows of data
Replicator_replicate_data(source_handle, sink_handle, schema, data) ==
    Then(MySQLClient_fetch_data_batched(
             source_handle, schema.name, ColumnNames(schema), TRUE),
         ClickHouseClient_insert_data(
             sink_handle, schema.name, ColumnNames(schema), data, TRUE))

\* Replicator.replicate_table
Replicator_replicate_table(source_handle, sink_handle, schema, data, drop_existing) ==
    Then(MySQLClient_get_table_schema(source_handle, schema.name, TRUE),
    Then(MySQLClient_get_row_count(source_handle, schema.name, TRUE),
    Then(Replicator_replicate_schema(sink_handle, schema, drop_existing),
    Then(Replicator_replicate_data(source_handle, sink_handle, schema, data),
         ClickHouseClient_get_row_count(sink_handle, schema.name, TRUE)))))

\* CDCReplicator._ensure_cdc_schema for one table
CDCReplicator_ensure_cdc_schema(source_handle, sink_handle, schema, drop_existing) ==
    Then(ClickHouseClient_create_database(sink_handle, TRUE),
    Then(MySQLClient_get_table_schema(source_handle, schema.name, TRUE),
    Then(IF drop_existing
         THEN ClickHouseClient_execute_command(
                  sink_handle, generate_drop_table(schema.name, Database),
                  TRUE)
         ELSE Returned(None, <<>>),
         ClickHouseClient_execute_command(
             sink_handle, generate_cdc_table(schema, Database), TRUE))))

InitAdapters ==
    /\ settings = [tables |-> <<>>, drop_existing |-> FALSE]
    /\ pc = "start"
    /\ exitCode = -1
    /\ tables = <<>>
    /\ position = None
    /\ syncPosition = None
    /\ todo = <<>>
    /\ stream = None
    /\ event = 0
    /\ tableSchemas = <<>>
    /\ reconnectDelay = 1
    /\ outcome = "none"
    /\ positionFile = AbsentFile
    /\ binlog = <<>>
    /\ source = InitialSource
    /\ sink = [t \in Range(SourceTables) |-> {}]
    /\ clock = 0
    /\ obs = InitObs
    /\ HandlersAtRest
    /\ TimerAtRest
    /\ SnapshotAtRest
    /\ ValidatorAtRest
    /\ AdaptersAtRest
    /\ ReleaseAtRest
    /\ ConverterAtRest

\* the variables the adapter methods leave alone
adapterFrame == <<settings, pc, exitCode, tables, position, syncPosition,
                  todo, stream, event, tableSchemas, reconnectDelay, outcome,
                  positionFile, binlog, source, sink, clock, obs,
                  handlerVars, timerVars, snapshotVars, validatorVars,
        releaseVars,
        converterVars>>

\* the record of a call: the method, the handle it found, its arguments and
\* what it did
Called(op, handle, args, result) ==
    [op |-> op, handle |-> handle, args |-> args] @@ result

CallMysqlConnect ==
    \E accepts \in BOOLEAN :
        LET result == Connect(handles.mysql, "mysql", accepts) IN
        /\ handles' = [handles EXCEPT
                          !.mysql = HandleAfterConnect(@, result)]
        /\ call' = Called("MySQLClient.connect", handles.mysql, <<>>, result)
        /\ UNCHANGED adapterFrame

CallClickhouseConnect ==
    \E accepts \in BOOLEAN :
        LET result == Connect(handles.clickhouse, "clickhouse", accepts) IN
        /\ handles' = [handles EXCEPT
                          !.clickhouse = HandleAfterConnect(@, result)]
        /\ call' = Called("ClickHouseClient.connect", handles.clickhouse,
                          <<>>, result)
        /\ UNCHANGED adapterFrame

CallMysqlDisconnect ==
    \E accepts \in BOOLEAN :
        LET result == Disconnect(handles.mysql, "mysql", accepts) IN
        /\ handles' = [handles EXCEPT
                          !.mysql = HandleAfterDisconnect(@, result)]
        /\ call' = Called("MySQLClient.disconnect", handles.mysql, <<>>,
                          result)
        /\ UNCHANGED adapterFrame

CallClickhouseDisconnect ==
    \E accepts \in BOOLEAN :
        LET result == Disconnect(handles.clickhouse, "clickhouse", accepts)
        IN
        /\ handles' = [handles EXCEPT
                          !.clickhouse = HandleAfterDisconnect(@, result)]
        /\ call' = Called("ClickHouseClient.disconnect", handles.clickhouse,
                          <<>>, result)
        /\ UNCHANGED adapterFrame

ReadMysqlConnection ==
    /\ call' = Called("MySQLClient.connection", handles.mysql, <<>>,
          HandleProperty(handles.mysql))
    /\ UNCHANGED <<handles, adapterFrame>>

ReadClickhouseClient ==
    /\ call' = Called("ClickHouseClient.client", handles.clickhouse, <<>>,
          HandleProperty(handles.clickhouse))
    /\ UNCHANGED <<handles, adapterFrame>>

CallMysqlGetTables ==
    \E accepts \in BOOLEAN :
        /\ call' = Called("MySQLClient.get_tables", handles.mysql, <<>>,
              MySQLClient_get_tables(handles.mysql, accepts))
        /\ UNCHANGED <<handles, adapterFrame>>

CallMysqlGetTableSchema ==
    \E table_name \in TableNames, accepts \in BOOLEAN :
        /\ call' = Called("MySQLClient.get_table_schema", handles.mysql,
              [names |-> <<table_name>>],
              MySQLClient_get_table_schema(handles.mysql, table_name,
                                           accepts))
        /\ UNCHANGED <<handles, adapterFrame>>

CallMysqlGetRowCount ==
    \E table_name \in TableNames, accepts \in BOOLEAN :
        /\ call' = Called("MySQLClient.get_row_count", handles.mysql,
              [names |-> <<table_name>>],
              MySQLClient_get_row_count(handles.mysql, table_name, accepts))
        /\ UNCHANGED <<handles, adapterFrame>>

CallMysqlFetchDataBatched ==
    \E table_name \in TableNames, columns \in ColumnLists,
       accepts \in BOOLEAN :
        /\ call' = Called("MySQLClient.fetch_data_batched", handles.mysql,
              [names |-> <<table_name>> \o columns],
              MySQLClient_fetch_data_batched(handles.mysql, table_name,
                                             columns, accepts))
        /\ UNCHANGED <<handles, adapterFrame>>

CallClickhouseCreateDatabase ==
    \E accepts \in BOOLEAN :
        /\ call' = Called("ClickHouseClient.create_database", handles.clickhouse, <<>>,
              ClickHouseClient_create_database(handles.clickhouse, accepts))
        /\ UNCHANGED <<handles, adapterFrame>>

CallClickhouseTableExists ==
    \E table_name \in TableNames, accepts \in BOOLEAN :
        /\ call' = Called("ClickHouseClient.table_exists", handles.clickhouse,
              [names |-> <<table_name>>],
              ClickHouseClient_table_exists(handles.clickhouse, table_name,
                                            accepts))
        /\ UNCHANGED <<handles, adapterFrame>>

CallClickhouseGetRowCount ==
    \E table_name \in TableNames, accepts \in BOOLEAN :
        /\ call' = Called("ClickHouseClient.get_row_count", handles.clickhouse,
              [names |-> <<table_name>>],
              ClickHouseClient_get_row_count(handles.clickhouse, table_name,
                                             accepts))
        /\ UNCHANGED <<handles, adapterFrame>>

CallClickhouseInsertData ==
    \E table_name \in TableNames, columns \in ColumnLists,
       data \in DataLists, accepts \in BOOLEAN :
        /\ call' = Called("ClickHouseClient.insert_data", handles.clickhouse,
              [names |-> <<table_name>> \o columns, data |-> data],
              ClickHouseClient_insert_data(handles.clickhouse, table_name,
                                           columns, data, accepts))
        /\ UNCHANGED <<handles, adapterFrame>>

CallClickhouseTruncateTable ==
    \E table_name \in TableNames, accepts \in BOOLEAN :
        /\ call' = Called("ClickHouseClient.truncate_table", handles.clickhouse,
              [names |-> <<table_name>>],
              ClickHouseClient_truncate_table(handles.clickhouse, table_name,
                                              accepts))
        /\ UNCHANGED <<handles, adapterFrame>>

\* snapshot mode replicates one table of the source
CallReplicateTable ==
    \E table_name \in ReplicatedTableNames, columns \in ColumnLists,
       keyed \in BOOLEAN,
       data \in DataLists, drop_existing \in BOOLEAN :
        LET schema == TableSchema(table_name, ColumnInfos(columns, keyed)) IN
        /\ call' = Called("Replicator.replicate_table", handles,
              [names |-> <<table_name>> \o columns, data |-> data],
              Replicator_replicate_table(handles.mysql, handles.clickhouse,
                                         schema, data, drop_existing))
        /\ UNCHANGED <<handles, adapterFrame>>

\* CDC mode creates the table of one table of the source
CallEnsureCdcSchema ==
    \E table_name \in ReplicatedTableNames, columns \in ColumnLists,
       keyed \in BOOLEAN,
       drop_existing \in BOOLEAN :
        LET schema == TableSchema(table_name, ColumnInfos(columns, keyed)) IN
        /\ call' = Called("CDCReplicator._ensure_cdc_schema", handles,
              [names |-> <<table_name>> \o columns],
              CDCReplicator_ensure_cdc_schema(handles.mysql,
                                              handles.clickhouse, schema,
                                              drop_existing))
        /\ UNCHANGED <<handles, adapterFrame>>



NextAdapters ==
    \/ CallMysqlConnect \/ CallClickhouseConnect
    \/ CallMysqlDisconnect \/ CallClickhouseDisconnect
    \/ ReadMysqlConnection \/ ReadClickhouseClient
    \/ CallMysqlGetTables \/ CallMysqlGetTableSchema
    \/ CallMysqlGetRowCount \/ CallMysqlFetchDataBatched
    \/ CallClickhouseCreateDatabase \/ CallClickhouseTableExists
    \/ CallClickhouseGetRowCount \/ CallClickhouseInsertData
    \/ CallClickhouseTruncateTable
    \/ CallReplicateTable \/ CallEnsureCdcSchema

SpecAdapters == InitAdapters /\ [][NextAdapters]_vars

----------------------------------------------------------------------------
(* main() and the passes of run(): what is acquired and what is released *)

\* number of passes of the loop of run()
MaxPasses == 2

\* what main() and run() acquire
MysqlConnection == [kind |-> "mysql", pass |-> 0]
ClickhouseClient == [kind |-> "clickhouse", pass |-> 0]
BinlogStream(n) == [kind |-> "stream", pass |-> n]

\* an exception is on its way out; cause tells where it was raised
Unwinding(exc, cause) == [exc |-> exc, cause |-> cause, code |-> 0]
\* the body of the with statement returned code
Returning(code) == [exc |-> "none", cause |-> "none", code |-> code]

InitRelease ==
    /\ settings = [tables |-> <<>>, drop_existing |-> FALSE]
    /\ pc = "main"
    /\ exitCode = -1
    /\ tables = <<>>
    /\ position = None
    /\ syncPosition = None
    /\ todo = <<>>
    /\ stream = None
    /\ event = 0
    /\ tableSchemas = <<>>
    /\ reconnectDelay = 1
    /\ outcome = "none"
    /\ positionFile = AbsentFile
    /\ binlog = <<>>
    /\ source = InitialSource
    /\ sink = [t \in Range(SourceTables) |-> {}]
    /\ clock = 0
    /\ obs = InitObs
    /\ HandlersAtRest
    /\ TimerAtRest
    /\ SnapshotAtRest
    /\ ValidatorAtRest
    /\ AdaptersAtRest
    /\ ReleaseAtRest
    /\ ConverterAtRest

\* the variables main() and the loop of run() leave alone here
releaseFrame == <<settings, tables, position, syncPosition, todo, stream,
                  event, tableSchemas, reconnectDelay, positionFile, binlog,
                  source, sink, clock, obs, call, handlerVars, timerVars,
                  snapshotVars, validatorVars,
        converterVars>>

\* main(), line 82: mysql_client.__enter__; when connect raises nothing is
\* held and main() goes to its except clause
MysqlEnter ==
    /\ pc = "main"
    /\ \E accepts \in BOOLEAN :
        LET result == Connect(handles.mysql, "mysql", accepts) IN
        /\ handles' = [handles EXCEPT !.mysql = HandleAfterConnect(@, result)]
        /\ IF result.raised = "nothing"
           THEN /\ held' = held \cup {MysqlConnection}
                /\ pc' = "enter_clickhouse"
                /\ UNCHANGED <<unwinding, exitCode>>
           ELSE /\ unwinding' = Unwinding("Exception", "connect")
                /\ pc' = "raised"
                /\ exitCode' = MainExit("raised")
                /\ UNCHANGED held
    /\ UNCHANGED <<streamRef, passes, outcome, releaseFrame>>

\* main(), line 82: clickhouse_client.__enter__; when connect raises the
\* with statement leaves through mysql_client.__exit__
ClickhouseEnter ==
    /\ pc = "enter_clickhouse"
    /\ \E accepts \in BOOLEAN :
        LET result == Connect(handles.clickhouse, "clickhouse", accepts) IN
        /\ handles' = [handles EXCEPT
                          !.clickhouse = HandleAfterConnect(@, result)]
        /\ IF result.raised = "nothing"
           THEN /\ held' = held \cup {ClickhouseClient}
                /\ pc' = "body"
                /\ UNCHANGED unwinding
           ELSE /\ unwinding' = Unwinding("Exception", "connect")
                /\ pc' = "exit_mysql"
                /\ UNCHANGED held
    /\ UNCHANGED <<streamRef, passes, outcome, exitCode, releaseFrame>>

\* main(), lines 83-86: run_snapshot_mode returns 0 or 1, or raises
SnapshotBody ==
    /\ pc = "body"
    /\ \E how \in {Returning(0), Returning(1),
                   Unwinding("Exception", "snapshot"),
                   Unwinding("KeyboardInterrupt", "snapshot")} :
        unwinding' = how
    /\ pc' = "exit_clickhouse"
    /\ UNCHANGED <<handles, held, streamRef, passes, outcome, exitCode,
                   releaseFrame>>

\* main(), lines 87-90, and run() up to its loop, lines 283-312
CdcBody ==
    /\ pc = "body"
    /\ pc' = "open"
    /\ UNCHANGED <<handles, held, streamRef, passes, outcome, exitCode,
                   unwinding, releaseFrame>>

\* run(), line 313: a new stream is kept in self._stream
ScopedOpenStream ==
    /\ pc = "open"
    /\ passes < MaxPasses
    /\ passes' = passes + 1
    /\ streamRef' = passes + 1
    /\ held' = held \cup {BinlogStream(passes + 1)}
    /\ outcome' = "none"
    /\ pc' = "try"
    /\ UNCHANGED <<handles, exitCode, unwinding, releaseFrame>>

\* run(), lines 315-366: the try block ends in one of its except clauses
TryBlockEnds ==
    /\ pc = "try"
    /\ \E how \in {"interrupt", "transport", "fatal"} : outcome' = how
    /\ pc' = "finally_save"
    /\ UNCHANGED <<handles, held, streamRef, passes, exitCode, unwinding,
                   releaseFrame>>

\* run(), lines 368-382: the position is saved, or the save raises an
\* Exception that is logged
FinallySave ==
    /\ pc = "finally_save"
    /\ pc' = "finally_close"
    /\ UNCHANGED <<handles, held, streamRef, passes, outcome, exitCode,
                   unwinding, releaseFrame>>

\* a KeyboardInterrupt outside the try blocks that catch it: before the
\* loop or between two passes (lines 283-313, 398), and in the finally
\* block while the position is written (lines 370-377), where
\* `except Exception` lets it pass
InterruptPropagates ==
    /\ pc \in {"open", "sleep", "finally_save"}
    /\ unwinding' = Unwinding("KeyboardInterrupt", pc)
    /\ pc' = "exit_clickhouse"
    /\ UNCHANGED <<handles, held, streamRef, passes, outcome, exitCode,
                   releaseFrame>>

\* _create_binlog_stream or initial_sync raises: run() catches nothing there
RunRaisesOutsideTry ==
    /\ pc = "open"
    /\ unwinding' = Unwinding("Exception", pc)
    /\ pc' = "exit_clickhouse"
    /\ UNCHANGED <<handles, held, streamRef, passes, outcome, exitCode,
                   releaseFrame>>

\* run(), lines 384-398: where run() goes after self._stream.close() in the
\* finally block; closed is false when close() raised, and nothing catches
\* that
AfterClose(how, closed) == IF closed THEN AfterPass(how) ELSE "raised"

\* run(), lines 384-398: close() is called, self._stream is set to None in
\* the inner finally, then run() sleeps, returns or raises
FinallyClose ==
    /\ pc = "finally_close"
    /\ held' = held \ {BinlogStream(streamRef)}
    /\ streamRef' = 0
    /\ \E closed \in BOOLEAN :
        LET next == AfterClose(outcome, closed) IN
        /\ pc' = IF next = "sleep" THEN "sleep" ELSE "exit_clickhouse"
        /\ unwinding' =
              IF next = "sleep" THEN unwinding
              ELSE IF next = "returned" THEN Returning(0)
              ELSE Unwinding("Exception", IF closed THEN "try" ELSE "close")
    /\ UNCHANGED <<handles, passes, outcome, exitCode, releaseFrame>>

\* run(), lines 398-401: the backoff sleep, then the next pass
ScopedSleep ==
    /\ pc = "sleep"
    /\ pc' = "open"
    /\ UNCHANGED <<handles, held, streamRef, passes, outcome, exitCode,
                   unwinding, releaseFrame>>

\* what is on its way out of the with statement after an __exit__
AfterExit(result, before) ==
    IF result.raised = "nothing" THEN before
    ELSE Unwinding("Exception", "disconnect")

\* main(), line 82: clickhouse_client.__exit__ calls disconnect
ClickhouseExit ==
    /\ pc = "exit_clickhouse"
    /\ \E accepts \in BOOLEAN :
        LET result == Disconnect(handles.clickhouse, "clickhouse", accepts)
        IN
        /\ handles' = [handles EXCEPT
                          !.clickhouse = HandleAfterDisconnect(@, result)]
        /\ held' = IF result.issued # <<>>
                   THEN held \ {ClickhouseClient} ELSE held
        /\ unwinding' = AfterExit(result, unwinding)
    /\ pc' = "exit_mysql"
    /\ UNCHANGED <<streamRef, passes, outcome, exitCode, releaseFrame>>

\* how main() ends, lines 84-97: the value of the body, 1 from the except
\* clause, or an uncaught KeyboardInterrupt
MainEnd(how) ==
    IF how.exc = "none" THEN "returned"
    ELSE IF how.exc = "Exception" THEN "raised"
    ELSE "interrupted"

\* main(), line 82: mysql_client.__exit__ calls disconnect, then main()
\* ends
MysqlExit ==
    /\ pc = "exit_mysql"
    /\ \E accepts \in BOOLEAN :
        LET result == Disconnect(handles.mysql, "mysql", accepts) IN
        /\ handles' = [handles EXCEPT
                          !.mysql = HandleAfterDisconnect(@, result)]
        /\ held' = IF result.issued # <<>>
                   THEN held \ {MysqlConnection} ELSE held
        /\ unwinding' = AfterExit(result, unwinding)
        /\ pc' = MainEnd(AfterExit(result, unwinding))
        /\ exitCode' =
              IF MainEnd(AfterExit(result, unwinding)) = "returned"
              THEN unwinding.code
              ELSE MainExit(MainEnd(AfterExit(result, unwinding)))
    /\ UNCHANGED <<streamRef, passes, outcome, releaseFrame>>

NextRelease ==
    \/ MysqlEnter \/ ClickhouseEnter \/ SnapshotBody \/ CdcBody
    \/ ScopedOpenStream \/ TryBlockEnds \/ FinallySave \/ InterruptPropagates
    \/ RunRaisesOutsideTry \/ FinallyClose \/ ScopedSleep
    \/ ClickhouseExit \/ MysqlExit

SpecRelease == InitRelease /\ [][NextRelease]_vars

----------------------------------------------------------------------------
(* The schema converter on its own: one table schema, every method of
   SchemaConverter applied to it *)

\* the longest column list of a schema
MaxColumns == 2

\* settings.clickhouse.database and the table the schema describes
ConverterDatabase == "analytics"
ConverterTable == "users"

\* column names of the source table; MySQL accepts every one of them
SourceColumnNames == {"id", "email", "_version", "_deleted"}

\* lists of distinct column names, the empty list among them
SourceColumnLists ==
    {names \in UNION {[1..n -> SourceColumnNames] : n \in 0..MaxColumns} :
        \A i, j \in DOMAIN names : names[i] = names[j] => i = j}

\* DATA_TYPE, NUMERIC_PRECISION and NUMERIC_SCALE of the first column:
\* decimal types in upper and lower case with absent, zero and positive
\* precision and scale, types of the mapping table and a type outside it
SourceTypes ==
    [data_type : {"DECIMAL", "numeric"},
     numeric_precision : {None, Some(0), Some(12)},
     numeric_scale : {None, Some(0), Some(2)}]
    \cup [data_type : {"int", "BigInt", "JSON", "geometry"},
          numeric_precision : {None},
          numeric_scale : {None}]

\* the ColumnInfo list of get_table_schema: the first column of the given
\* type and nullability, the others nullable varchar, the columns at the
\* positions in keyed with COLUMN_KEY = PRI
SourceColumnInfos(names, type, nullable, keyed) ==
    [i \in 1..Len(names) |->
        [name |-> names[i],
         data_type |-> IF i = 1 THEN type.data_type ELSE "varchar",
         is_nullable |-> IF i = 1 THEN nullable ELSE TRUE,
         column_key |-> IF i \in keyed THEN "PRI" ELSE "",
         numeric_precision |->
             IF i = 1 THEN type.numeric_precision ELSE None,
         numeric_scale |-> IF i = 1 THEN type.numeric_scale ELSE None]]

\* the table schemas handed to the converter: those get_table_schema
\* returns and, with a data_type in upper case, those built from ColumnInfo
\* directly
SourceSchemas ==
    {TableSchema(ConverterTable,
                 SourceColumnInfos(names, type, nullable, keyed)) :
        names \in SourceColumnLists, type \in SourceTypes,
        nullable \in BOOLEAN, keyed \in SUBSET (1..MaxColumns)}

\* what a method of the converter returned
Generated(method, result) == [method |-> method, result |-> result]

InitConverter ==
    /\ settings = [tables |-> <<>>, drop_existing |-> FALSE]
    /\ pc = "start"
    /\ exitCode = -1
    /\ tables = <<>>
    /\ position = None
    /\ syncPosition = None
    /\ todo = <<>>
    /\ stream = None
    /\ event = 0
    /\ tableSchemas = <<>>
    /\ reconnectDelay = 1
    /\ outcome = "none"
    /\ positionFile = AbsentFile
    /\ binlog = <<>>
    /\ source = InitialSource
    /\ sink = [t \in Range(SourceTables) |-> {}]
    /\ clock = 0
    /\ obs = InitObs
    /\ HandlersAtRest
    /\ TimerAtRest
    /\ SnapshotAtRest
    /\ ValidatorAtRest
    /\ AdaptersAtRest
    /\ ReleaseAtRest
    /\ sourceSchema \in SourceSchemas
    /\ generated = NothingGenerated

\* the variables a method of the converter leaves alone
converterFrame == <<settings, pc, exitCode, tables, position, syncPosition,
                    todo, stream, event, tableSchemas, reconnectDelay,
                    outcome, positionFile, binlog, source, sink, clock, obs,
                    handlerVars, timerVars, snapshotVars, validatorVars,
                    adapterVars, releaseVars, sourceSchema>>

\* convert_column_type on the first column of the schema
CallConvertColumnType ==
    /\ sourceSchema.columns # <<>>
    /\ generated' = Generated("convert_column_type",
                              convert_column_type(sourceSchema.columns[1]))
    /\ UNCHANGED converterFrame

\* generate_create_table, as replicate_schema calls it
CallGenerateCreateTable ==
    /\ generated' = Generated("generate_create_table",
                              generate_create_table(sourceSchema,
                                                    ConverterDatabase))
    /\ UNCHANGED converterFrame

\* generate_drop_table, as _ensure_cdc_schema calls it
CallGenerateDropTable ==
    /\ generated' = Generated("generate_drop_table",
                              generate_drop_table(sourceSchema.name,
                                                  ConverterDatabase))
    /\ UNCHANGED converterFrame

\* _ensure_cdc_schema for the table: the column names are cached and
\* generate_cdc_table is called with the same schema
CallGenerateCdcTable ==
    /\ generated' = [method |-> "generate_cdc_table",
                     result |-> generate_cdc_table(sourceSchema,
                                                   ConverterDatabase),
                     cached |-> ColumnNames(sourceSchema)]
    /\ UNCHANGED converterFrame

\* generate_cdc_view for the table of the schema
CallGenerateCdcView ==
    /\ generated' = Generated("generate_cdc_view",
                              generate_cdc_view(sourceSchema.name,
                                                ConverterDatabase,
                                                sourceSchema))
    /\ UNCHANGED converterFrame

NextConverter ==
    \/ CallConvertColumnType \/ CallGenerateCreateTable
    \/ CallGenerateDropTable \/ CallGenerateCdcTable \/ CallGenerateCdcView

SpecConverter == InitConverter /\ [][NextConverter]_vars

----------------------------------------------------------------------------
(* One run() with everything that can go wrong around the checkpoint: a    *)
(* write of the position file fails, close() of the stream raises, the     *)
(* reader ends its iteration, a step of the bootstrap raises, the shutdown *)
(* signal arrives inside the finally block.  The process is not restarted. *)

\* number of row events the source appends to the binlog during the run
MaxRunEvents == 2

\* what a write_text that raised leaves of the position file: the content
\* it had, or a file that was opened for writing and cut short
FailedWrite(f) == {f, TextFile}

\* REPLICATION_TABLES is " " (no name in it: all tables) or " t1,"
\* (the first table); existing tables are kept
RunSettings ==
    {[tables |-> <<" ">>, drop_existing |-> FALSE],
     [tables |-> <<" t1", "">>, drop_existing |-> FALSE]}

\* no checkpoint file, or the one a former run left
InitRun ==
    /\ settings \in RunSettings
    /\ pc = "start"
    /\ exitCode = -1
    /\ tables = <<>>
    /\ position = None
    /\ syncPosition = None
    /\ todo = <<>>
    /\ stream = None
    /\ event = 0
    /\ tableSchemas = <<>>
    /\ reconnectDelay = 1
    /\ outcome = "none"
    /\ positionFile \in {AbsentFile, ToDict(LogPos(0))}
    /\ binlog = <<>>
    /\ source = InitialSource
    /\ sink = [t \in Range(SourceTables) |-> {}]
    /\ clock = 0
    /\ obs = InitObs
    /\ HandlersAtRest
    /\ TimerAtRest
    /\ SnapshotAtRest
    /\ ValidatorAtRest
    /\ AdaptersAtRest
    /\ ReleaseAtRest
    /\ ConverterAtRest

\* the row changes the clients of the source commit during the run: the row
\* of the first table is updated to and fro, the row of the second table is
\* inserted and deleted in turn
ChangedValue(t, v) ==
    IF t = SourceTables[1] THEN (IF v = "a" THEN "b" ELSE "a")
    ELSE IF v = Absent THEN "a" ELSE Absent

\* a committed row change of the source: an insert, an update or a delete
SourceChange ==
    \E t \in Range(SourceTables), k \in Keys :
        /\ pc \notin Terminal
        /\ Len(binlog) < MaxRunEvents
        /\ source' = [source EXCEPT ![t][k] = ChangedValue(t, @)]
        /\ WriteBinlog(t,
                       IF source[t][k] = Absent THEN "write"
                       ELSE IF ChangedValue(t, source[t][k]) = Absent
                       THEN "delete" ELSE "update",
                       k,
                       IF ChangedValue(t, source[t][k]) = Absent
                       THEN source[t][k] ELSE ChangedValue(t, source[t][k]))
        /\ UNCHANGED <<settings, unitVars, pc, exitCode, procVars, positionFile,
                       sink, clock, obs>>

\* initial_sync(), lines 230-245, and _load_table_schemas: a query of the
\* source or a statement of the sink raises, and the exception leaves run()
BootstrapFails ==
    /\ pc \in {"sync_position", "sync_schema", "sync_copy", "prime"}
    /\ pc' = "raised"
    /\ exitCode' = MainExit("raised")
    /\ Gone
    /\ obs' = FreshRun(obs)
    /\ UNCHANGED <<settings, unitVars, positionFile, envVars, sink, clock>>

\* initial_sync(), line 247: _save_position raises, and the exception
\* leaves run()
SyncSaveFails ==
    /\ pc = "sync_save"
    /\ positionFile' \in FailedWrite(positionFile)
    /\ pc' = "raised"
    /\ exitCode' = MainExit("raised")
    /\ Gone
    /\ obs' = FreshRun(obs)
    /\ UNCHANGED <<settings, unitVars, envVars, sink, clock>>

\* a run() that assigns `position` before it calls _save_position
PositionAssignedFirst(st, old) == Some(StreamPosition(st))

\* the local `position` after a _save_position that raised: the assignment
\* `position = pos` behind the call was not reached
PositionAfterFailedSave(st, old) == old

\* run(), line 316: the reader has no further event (the server sent EOF)
\* and the for loop ends without an exception
StreamEnds ==
    /\ pc = "iter"
    /\ outcome' = "ended"
    /\ pc' = "cleanup"
    /\ UNCHANGED <<settings, unitVars, exitCode, tables, position, syncPosition,
                   todo, stream, event, tableSchemas, reconnectDelay,
                   positionFile, envVars, sink, clock, obs>>

\* run(), lines 322-343: the handler inserted the rows of the event, then
\* _save_position of the periodic save raised OSError, which the except
\* clause of line 356 takes for a lost connection
PeriodicSaveFails ==
    /\ pc = "handle"
    /\ clock < MaxClock
    /\ LET ev == binlog[event]
           t == ev.table IN
        /\ tableSchemas' = GetTableColumns(tableSchemas, t)
        /\ sink' = [sink EXCEPT ![t] = @ \cup EventRows(ev, clock)]
        /\ obs' = [obs EXCEPT
             !.inserted = @ \cup {event},
             !.session = Append(@, event),
             !.described = IF t \in DOMAIN tableSchemas THEN @ ELSE @ \cup {t},
             !.unsaved = TRUE]
    /\ positionFile' \in FailedWrite(positionFile)
    /\ clock' = clock + 1
    /\ event' = 0
    /\ position' = PositionAfterFailedSave(stream[1], position)
    /\ outcome' = "transport"
    /\ pc' = "cleanup"
    /\ UNCHANGED <<settings, unitVars, exitCode, tables, syncPosition, todo,
                   stream, reconnectDelay, envVars>>

\* run(), lines 367-395: _save_position of the finally block raises, the
\* warning is logged, the stream is closed
CleanupSaveFails ==
    /\ pc = "cleanup"
    /\ positionFile' \in FailedWrite(positionFile)
    /\ position' = PositionAfterFailedSave(stream[1], position)
    /\ obs' = [obs EXCEPT !.unsaved = TRUE]
    /\ stream' = None
    /\ pc' = AfterPass(outcome)
    /\ exitCode' = IF AfterPass(outcome) \in {"raised", "returned"}
                   THEN MainExit(AfterPass(outcome)) ELSE exitCode
    /\ UNCHANGED <<settings, unitVars, tables, syncPosition, todo, event,
                   tableSchemas, reconnectDelay, outcome, envVars, sink,
                   clock>>

\* run(), lines 384-387: the position was persisted, then close() of the
\* stream raises and the exception leaves run()
CleanupCloseFails ==
    /\ pc = "cleanup"
    /\ positionFile' = SavePosition(FinallyPosition(stream[1], position))
    /\ pc' = "raised"
    /\ exitCode' = MainExit("raised")
    /\ Gone
    /\ obs' = FreshRun(obs)
    /\ UNCHANGED <<settings, unitVars, envVars, sink, clock>>

\* KeyboardInterrupt inside the finally block of run(): nothing catches it
InterruptCleanup ==
    /\ pc = "cleanup"
    /\ pc' = "interrupted"
    /\ exitCode' = MainExit("interrupted")
    /\ Gone
    /\ obs' = [FreshRun(obs) EXCEPT !.signalled = TRUE]
    /\ UNCHANGED <<settings, unitVars, positionFile, envVars, sink, clock>>

NextRun ==
    \/ SourceChange
    \/ Start \/ SyncCapturePosition \/ EnsureCdcSchema \/ SyncTable \/ SyncSave
    \/ LoadTableSchemas \/ BootstrapFails \/ SyncSaveFails
    \/ OpenStream \/ FetchEvent \/ HandleEvent \/ HandleFails \/ StreamFails
    \/ StreamEnds \/ PeriodicSaveFails
    \/ InterruptStreaming \/ InterruptElsewhere \/ InterruptCleanup
    \/ Cleanup \/ CleanupSaveFails \/ CleanupCloseFails \/ Sleep

SpecRun == InitRun /\ [][NextRun]_vars

----------------------------------------------------------------------------
(* Reading the sink and the checkpoint *)

\* what a query with FINAL returns for table t: per key the row with the
\* largest _version, rows with _deleted = 1 left out
Live(t) ==
    [k \in Keys |->
        LET rows == {r \in sink[t] : r[1] = k} IN
        IF rows = {} THEN Absent
        ELSE LET top == CHOOSE r \in rows : \A q \in rows : q[3] <= r[3] IN
             IF top[4] = 1 THEN Absent ELSE top[2]]

\* the replication set of the configuration
ReplicationSet == Range(GetTables(settings))

\* event i of the binlog has reached the sink: a handler inserted its rows,
\* or the snapshot of its table was read after it
Reflected(i) ==
    \/ i \in obs.inserted
    \/ i <= obs.snapshotAt[binlog[i].table]

\* the stream has delivered every event of the binlog and run() waits for more
CaughtUp ==
    /\ pc = "iter"
    /\ LogIndex(StreamPosition(stream[1])) = Len(binlog)

\* the position file holds no binlog position: it is missing, is not JSON,
\* or is JSON whose keys are not those of a position
NoCheckpoint(f) ==
    \/ f.kind = "absent"
    \/ f.kind = "text"
    \/ f.kind = "json" /\ f.keys \notin {{"file", "position"},
                                         {"file", "position", "timestamp"}}

\* a step of the process itself that is not its being killed
Proceeds == pc' # pc /\ pc' # "killed"

----------------------------------------------------------------------------
(* Claims *)

\* C1: whenever the checkpoint file holds a position, every binlog event of a
\* replicated table that lies before that position has reached the sink, so
\* a restart from it loses nothing. (Stated as claimed; the finally block of
\* run() breaks it.)
C1_CheckpointLosesNothing ==
    LoadPosition(positionFile) # None =>
        \A i \in 1..Len(binlog) :
            (i <= LogIndex(LoadPosition(positionFile)[1])
             /\ binlog[i].table \in ReplicationSet) => Reflected(i)

\* C2: once a run whose snapshot went into empty tables has processed the
\* binlog to its end, the live content of every replicated target table is
\* the content of the source table. (Stated as claimed; events skipped by
\* the checkpoint of C1 break it.)
C2_LiveContentEqualsSource ==
    (obs.clean /\ CaughtUp) =>
        \A t \in ReplicationSet : Live(t) = source[t]

\* C3: a run that finds a valid position (f, n) in the checkpoint file issues
\* no DDL and no snapshot insert, and by the time it opens its first stream
\* it has described every table of the replication set and opens that stream
\* with log_file = f, log_pos = n, resume_stream = true.
C3_ResumeFromCheckpoint ==
    (obs.loaded /\ ~NoCheckpoint(obs.startFile)) =>
        /\ ~obs.captured /\ ~obs.ddl /\ ~obs.snapshot
        /\ obs.first # None =>
            /\ obs.described = ReplicationSet
            /\ DOMAIN tableSchemas = ReplicationSet
            /\ obs.first[1].log_file = obs.startFile.file
            /\ obs.first[1].log_pos = obs.startFile.position
            /\ obs.first[1].resume_stream = TRUE

C3_Witness ==
    /\ obs.loaded /\ ~NoCheckpoint(obs.startFile)
    /\ obs.first # None
    /\ obs.startFile.position > 0
    /\ Cardinality(ReplicationSet) = 2

\* C4: a run that finds the checkpoint file missing or malformed gets None
\* from _load_position, does not fail on it, and opens no binlog stream
\* before the initial sync has run to its end.
C4_MalformedMeansInitialSync ==
    (obs.loaded /\ NoCheckpoint(obs.startFile)) =>
        /\ obs.start = None
        /\ pc # "prime"
        /\ obs.first # None => obs.synced

C4_Witness ==
    /\ obs.loaded
    /\ obs.startFile.kind = "json"
    /\ NoCheckpoint(obs.startFile)
    /\ obs.first # None

\* C5: initial_sync reads the binlog position P0 before it creates a table or
\* reads a source row; the position it writes at its end is that P0, not the
\* position the source has reached by then; and the first stream after the
\* initial sync is opened at P0.
C5_SnapshotPositionFirst ==
    /\ (obs.ddl \/ obs.snapshot) => obs.captured
    /\ obs.synced =>
        /\ obs.saved # None
        /\ obs.first = None =>
            (LoadPosition(positionFile) = obs.p0 /\ position = obs.p0)
        /\ obs.first # None =>
            /\ StreamPosition(obs.first[1]) = obs.p0[1]
            /\ obs.first[1].resume_stream

C5_Witness ==
    /\ obs.synced
    /\ obs.first # None
    /\ obs.atSave > LogIndex(obs.p0[1])

C7_BackoffSchedule ==
    pc \notin Terminal =>
        /\ reconnectDelay \in 1..30
        /\ reconnectDelay = Min(30, 2 ^ obs.reopens)
        /\ obs.reopens >= 1 => obs.slept = Min(30, 2 ^ (obs.reopens - 1))

C7_Witness ==
    /\ pc \notin Terminal
    /\ obs.reopens = 7
    /\ obs.slept = 30
    /\ obs.inserted # {}

\* C8: a pass that ended with an exception that is neither a shutdown signal
\* nor a transport failure closes the stream and ends run() with that
\* exception: main() exits with code 1, without a sleep or another stream.
C8_FatalErrorPropagates ==
    [][/\ (pc = "cleanup" /\ outcome = "fatal" /\ Proceeds) =>
            /\ pc' = "raised"
            /\ stream' = None
            /\ exitCode' = 1
            /\ obs'.reopens = obs.reopens
            /\ obs'.lastOpen = obs.lastOpen
       /\ (pc = "raised" /\ pc' = "raised") => (stream' = None /\ exitCode' = 1)]_vars

C8_Witness ==
    /\ pc = "raised"
    /\ exitCode = 1
    /\ event # 0
    /\ stream = None

C10_ShutdownIsCleanEverywhere ==
    (obs.signalled /\ pc \in Terminal) => (pc = "returned" /\ exitCode = 0)

----------------------------------------------------------------------------
(* Reading the recorded insert_data calls *)

\* the calls a handler made (the others are the initial copy's)
HandlerCalls == {n \in 1..Len(inserts) : inserts[n].cause.type # "sync"}

\* a row tuple without its last two positions
UserPart(row) == SubSeq(row, 1, Len(row) - 2)

\* the values of a row image, in any order: v occurs in the tuple part
Holds(part, v) == \E p \in 1..Len(part) : part[p] = v

\* tuple part and row image hold the same values
SameValues(part, image) ==
    /\ Len(part) = Len(image)
    /\ \A j \in 1..Len(image) : Holds(part, image[j][2])
    /\ \A p \in 1..Len(part) : \E j \in 1..Len(image) : image[j][2] = part[p]

\* C11: every tuple a handler inserts is built from the row image its event
\* type selects and ends with the flag of that type: `values` and 0 for
\* WriteRows, `after_values` (never the before image) and 0 for UpdateRows,
\* `values` and 1 for DeleteRows; one tuple per row of the event.
C11_ImageAndFlagByEventType ==
    \A n \in HandlerCalls :
        LET c == inserts[n]
            ev == c.cause IN
        /\ Len(c.rows) = Len(ev.rows)
        /\ \A i \in 1..Len(c.rows) :
             LET row == c.rows[i]
                 flag == row[Len(row)] IN
             /\ flag \in {0, 1}
             /\ ev.type = "write" =>
                    SameValues(UserPart(row), ev.rows[i].values) /\ flag = 0
             /\ ev.type = "update" =>
                    /\ SameValues(UserPart(row), ev.rows[i].after_values)
                    /\ ~ SameValues(UserPart(row), ev.rows[i].before_values)
                    /\ flag = 0
             /\ ev.type = "delete" =>
                    SameValues(UserPart(row), ev.rows[i].values) /\ flag = 1

\* an update and a delete have been handled
C11_Witness ==
    /\ \E n \in HandlerCalls : inserts[n].cause.type = "update"
    /\ \E n \in HandlerCalls : inserts[n].cause.type = "delete"

\* the cached column names of the table of call c
CachedColumns(c) == tableSchemas[c.table]

\* C12: every row tuple handed to the sink, by a handler or by the initial
\* copy, has as many positions as the table has cached columns plus two,
\* which is also the length of the column list handed over with it, and its
\* last two positions are the version and a flag that is 0 or 1. (Stated as
\* claimed; a handler takes every value of the row image, whatever columns
\* the image has.)
C12_ArityIsCachedColumnsPlusTwo ==
    \A n \in 1..Len(inserts) :
        LET c == inserts[n] IN
        \A i \in 1..Len(c.rows) :
            LET row == c.rows[i] IN
            /\ Len(row) = Len(CachedColumns(c)) + 2
            /\ Len(row) = Len(c.columns)
            /\ row[Len(row) - 1] \in 0..MaxWallClock
            /\ row[Len(row)] \in {0, 1}

\* the value a row image holds for the column called name
ValueOf(image, name) ==
    image[CHOOSE q \in 1..Len(image) : image[q][1] = name][2]

\* the row image of row i of event ev that its handler reads
SelectedImage(ev, i) ==
    IF ev.type = "update" THEN ev.rows[i].after_values ELSE ev.rows[i].values

\* C13: in every tuple a handler inserts, position i holds the value the
\* row image has for the i-th cached column name. (Stated as claimed; the
\* handlers take the values in the iteration order of the image.)
C13_PositionsFollowCachedOrder ==
    \A n \in HandlerCalls :
        LET c == inserts[n] IN
        \A i \in 1..Len(c.rows) :
            \A j \in 1..Len(CachedColumns(c)) :
                /\ j <= Len(c.rows[i]) - 2
                /\ c.rows[i][j] =
                       ValueOf(SelectedImage(c.cause, i), CachedColumns(c)[j])

\* the version a row tuple carries
VersionOf(row) == row[Len(row) - 1]

\* the rows of the target table after the given insert_data calls, in insert
\* order; a call whose tuples do not fit its column list stores nothing
RECURSIVE StoredRows(_)
StoredRows(calls) ==
    IF calls = <<>> THEN <<>>
    ELSE LET c == calls[Len(calls)] IN
         StoredRows(SubSeq(calls, 1, Len(calls) - 1))
         \o (IF \A i \in 1..Len(c.rows) : Len(c.rows[i]) = Len(c.columns)
             THEN c.rows ELSE <<>>)

\* SELECT ... FINAL on a ReplacingMergeTree(_version) table ordered by its
\* first column: per sort key the row with the largest version, and among
\* rows of equal version the one inserted last
Final(rows) ==
    {rows[i] : i \in {x \in 1..Len(rows) :
        \A y \in 1..Len(rows) :
            rows[y][1] = rows[x][1] =>
                \/ VersionOf(rows[y]) < VersionOf(rows[x])
                \/ VersionOf(rows[y]) = VersionOf(rows[x]) /\ y <= x}}

\* the user columns of the rows FINAL returns
FinalUserRows(calls) == {UserPart(r) : r \in Final(StoredRows(calls))}

\* this step handles the WriteRows event that the previous call handled
ReplaysLastWrite ==
    /\ inserts # <<>>
    /\ Len(inserts') = Len(inserts) + 1
    /\ inserts[Len(inserts)].cause.type = "write"
    /\ inserts'[Len(inserts')].cause = inserts[Len(inserts)].cause

\* C14: handling the same WriteRows event once more leaves the target table,
\* read with FINAL, with the same number of rows and the same user-column
\* values; so N applications read like one. (Stated as claimed; it rests on
\* the versions not going down, which C15 shows the code does not ensure.)
C14_ReplayedWriteReadsTheSame ==
    [][ReplaysLastWrite =>
          /\ Cardinality(Final(StoredRows(inserts'))) =
                 Cardinality(Final(StoredRows(inserts)))
          /\ FinalUserRows(inserts') = FinalUserRows(inserts)]_vars

\* C15: the versions of the inserts of one process never go down in the
\* order the inserts are issued. (Stated as claimed; the version is the
\* wall clock, which can be set back.)
C15_VersionsNeverGoDown ==
    \A m, n \in 1..Len(inserts) :
        (m < n /\ inserts[m].rows # <<>> /\ inserts[n].rows # <<>>) =>
            VersionOf(inserts[m].rows[1]) <= VersionOf(inserts[n].rows[1])

----------------------------------------------------------------------------
(* The periodic save *)

\* this step is the end of the handling of an event, with its check of
\* last_save_time
EventProcessed == pc = "handle" /\ pc' = "iter"

\* this step writes the position of the stream to the position file
WritesStreamPosition ==
    /\ positionFile' = SavePosition(StreamPosition(stream[1]))
    /\ stamps'.written = clock

----------------------------------------------------------------------------
(* Snapshot mode *)

\* the records of the tables that raised, and the others
IsErrorRecord(r) == "error" \in DOMAIN r

\* C17: the record replicate_table returns has success true exactly when
\* the source count it read before the copy equals the target count it read
\* after the copy (no row reaches the target table after that count),
\* whatever rows_inserted is; and run_snapshot_mode returns 1 if a record
\* has success false (a count mismatch or a captured error), else 0.
C17_SuccessIsCountEquality ==
    /\ \A i \in 1..Len(results) :
          LET r == results[i] IN
          ~ IsErrorRecord(r) =>
              /\ r.success = (r.source_rows = r.target_rows)
              /\ r.target_rows = Len(sink[r.table])
    /\ pc = "returned" =>
          exitCode = IF \E i \in 1..Len(results) : ~ results[i].success
                     THEN 1 ELSE 0

\* the run has ended with exit code 1, with a table that raised and a table
\* whose counts agree although other rows were inserted than were counted
C17_Witness ==
    /\ pc = "returned"
    /\ exitCode = 1
    /\ \E i \in 1..Len(results) : IsErrorRecord(results[i])
    /\ \E i \in 1..Len(results) :
          /\ ~ IsErrorRecord(results[i])
          /\ results[i].success
          /\ results[i].rows_inserted # results[i].source_rows

\* C18: with p <= 1 and with p > 1, an exception raised while a table is
\* replicated becomes that table's record (success false and an error) and
\* run() goes on: it never raises, no table gets two records, and when it
\* returns every table of the replication set has its record, the tables
\* that did not raise a complete one.
C18_TableFailureIsCaptured ==
    /\ pc # "raised"
    /\ \A i \in 1..Len(results) :
          /\ IsErrorRecord(results[i]) => ~ results[i].success
          /\ \A j \in 1..Len(results) :
                i # j => results[i].table # results[j].table
    /\ \A t \in DOMAIN tasks :
          tasks[t].pc = "failed" =>
              \E i \in 1..Len(results) :
                  results[i].table = t /\ IsErrorRecord(results[i])
    /\ pc = "returned" =>
          /\ Len(results) = Len(GetTables(settings))
          /\ \A t \in Range(GetTables(settings)) :
                \E i \in 1..Len(results) :
                    /\ results[i].table = t
                    /\ IsErrorRecord(results[i]) <=> tasks[t].pc = "failed"

\* a parallel run has returned: the table that began first raised, the
\* other was replicated
C18_Witness ==
    /\ pc = "returned"
    /\ settings.parallel_tables > 1
    /\ \E i, j \in 1..Len(results) :
          /\ IsErrorRecord(results[i])
          /\ results[i].table = GetTables(settings)[1]
          /\ ~ IsErrorRecord(results[j])
          /\ results[j].success

\* task t has a statement in progress on its source connection
CursorOpen(t) == tasks[t].pc = "copy"

\* C19: with p > 1, two table tasks never use the same source connection
\* at the same time. (Stated as claimed; every task works with the
\* adapters of the Replicator and nothing serializes them.)
C19_NoAdapterSharedByRunningTasks ==
    \A t, u \in DOMAIN tasks :
        (t # u /\ CursorOpen(t) /\ CursorOpen(u)) =>
            SourceAdapterOf(t) # SourceAdapterOf(u)

----------------------------------------------------------------------------
(* C20 *)

\* s is a non-empty string of ASCII letters, digits and underscores that
\* does not start with a digit
IsAsciiIdentifier(s) ==
    /\ Len(s) > 0
    /\ s[1] \in AsciiLetters \cup {"_"}
    /\ \A i \in 1..Len(s) : s[i] \in AsciiLetters \cup AsciiDigits \cup {"_"}

\* _validate_identifier has been called on the candidate
Validated == verdict # NoVerdict

\* C20: in both adapters _validate_identifier returns its argument
\* unchanged exactly when it is a non-empty ASCII identifier; the empty
\* string raises the 'Empty' error and every other string, one that ends
\* with a newline included, raises the 'Invalid' error naming the context.
C20_ReturnsExactlyAsciiIdentifiers ==
    Validated =>
        /\ verdict.raised = "nothing" <=> IsAsciiIdentifier(identifier.name)
        /\ verdict.raised = "nothing" => verdict.value = identifier.name
        /\ Len(identifier.name) = 0 => verdict.raised = "Empty"
        /\ Len(identifier.name) > 0 /\ ~IsAsciiIdentifier(identifier.name)
              => /\ verdict.raised = "Invalid"
                 /\ verdict.context = identifier.context

----------------------------------------------------------------------------
(* C21 *)

\* the driver calls made by the last call of a method
Issued == IF call.op = "none" THEN <<>> ELSE call.issued

\* the validator returns the name
PassesValidator(name) == ValidateIdentifier(name, "").raised = "nothing"

\* C21: every statement handed to a driver whose text was assembled from
\* table, column or database names, the CREATE TABLE and DROP TABLE
\* statements of the generator included, holds only names that the
\* identifier validator returns.
C21_InterpolatedNamesPassValidator ==
    \A i \in 1..Len(Issued) :
        \A name \in Issued[i].names : PassesValidator(name)

----------------------------------------------------------------------------
(* C22 *)

\* the adapter methods that take a table name or column names
NameMethods ==
    {"MySQLClient.get_row_count", "MySQLClient.fetch_data_batched",
     "ClickHouseClient.table_exists", "ClickHouseClient.get_row_count",
     "ClickHouseClient.insert_data", "ClickHouseClient.truncate_table"}

\* the last call was one of these methods, insert_data with rows to insert,
\* and one of its names fails validation
CalledWithInvalidName ==
    /\ call.op \in NameMethods
    /\ call.op = "ClickHouseClient.insert_data" => Len(call.args.data) > 0
    /\ \E i \in 1..Len(call.args.names) : ~PassesValidator(call.args.names[i])

\* C22: a call of an adapter method with a table or column name that fails
\* validation raises the validation error and makes no driver call.
C22_InvalidNameRaisesBeforeAnyDriverCall ==
    CalledWithInvalidName =>
        /\ call.raised \in {"Empty", "Invalid"}
        /\ call.issued = <<>>

C22_Witness ==
    /\ CalledWithInvalidName
    /\ call.op = "ClickHouseClient.insert_data"
    /\ call.handle # NoHandle
    /\ call.raised = "Invalid"

----------------------------------------------------------------------------
(* C23 *)

\* the last call was insert_data with n rows
InsertedRows(n) ==
    /\ call.op = "ClickHouseClient.insert_data"
    /\ Len(call.args.data) = n

\* the driver calls of the last call are one insert
OneDriverInsert ==
    /\ Len(call.issued) = 1
    /\ call.issued[1].adapter = "clickhouse"
    /\ call.issued[1].method = "insert"

\* C23: insert_data with an empty row list makes no driver call and
\* returns 0, whatever the names are and whether or not the client is
\* connected; with n >= 1 rows and valid names on a connected client it
\* makes exactly one driver insert, and returns n when the driver returns.
C23_InsertDataReturnsRowCount ==
    /\ InsertedRows(0) =>
          /\ call.raised = "nothing"
          /\ call.value = 0
          /\ call.issued = <<>>
    /\ \A n \in 1..MaxRows :
          (/\ InsertedRows(n)
           /\ call.handle # NoHandle
           /\ \A i \in 1..Len(call.args.names) :
                 PassesValidator(call.args.names[i]))
          => /\ OneDriverInsert
             /\ call.raised \in {"nothing", "DriverError"}
             /\ call.raised = "nothing" => call.value = n

\* MaxRows rows were inserted with one driver call
C23_Witness ==
    /\ InsertedRows(MaxRows)
    /\ call.raised = "nothing"
    /\ call.value = MaxRows
    /\ OneDriverInsert

----------------------------------------------------------------------------
(* C24 *)

\* main() has ended
MainEnded == pc \in {"returned", "raised", "interrupted"}

\* no pass of the loop of run() is under way
OutsidePass ==
    pc \in {"open", "sleep", "exit_clickhouse", "exit_mysql"} \/ MainEnded

\* C24: when main() has ended, on whatever path, the source connection and
\* the sink client it connected have been closed; when a pass of the CDC
\* loop is over, on whatever path, the stream that pass opened has been
\* closed and _stream is None.
C24_AcquiredIsReleased ==
    /\ MainEnded => held = {}
    /\ OutsidePass =>
          /\ streamRef = 0
          /\ \A n \in 1..MaxPasses : BinlogStream(n) \notin held

----------------------------------------------------------------------------
(* C25 *)

\* the exception raised by self._stream.close() is on its way out of run()
CloseFailurePropagates ==
    /\ unwinding.exc = "Exception"
    /\ unwinding.cause = "close"

\* C25: when closing the binlog stream raises in the cleanup of a pass, the
\* failure is swallowed: it does not leave run(), and the pass ends as it
\* would have ended (backoff and reconnect after a transport failure, a
\* normal return after a shutdown).
C25_CloseFailureIsSwallowed == ~CloseFailurePropagates

----------------------------------------------------------------------------
(* C26 *)

\* the methods and properties of one adapter that need its driver handle
HandleMethods ==
    NameMethods \cup
    {"MySQLClient.connection", "ClickHouseClient.client",
     "MySQLClient.get_tables", "MySQLClient.get_table_schema",
     "ClickHouseClient.create_database"}

DisconnectMethods == {"MySQLClient.disconnect", "ClickHouseClient.disconnect"}

\* the handle of the adapter whose method was called last
HandleNow ==
    IF call.op \in {"MySQLClient.disconnect"} THEN handles.mysql
    ELSE handles.clickhouse

\* the last call ended before it came to read the handle
EndedBeforeHandle ==
    \/ call.raised \in {"Empty", "Invalid"}
    \/ /\ call.op = "ClickHouseClient.insert_data"
       /\ Len(call.args.data) = 0

\* C26: a method or property of an adapter that is not connected (never
\* connected, or disconnected) raises the not-connected error when it comes
\* to use the handle, and makes no driver call; reading the property of a
\* connected adapter returns the handle; disconnect on a connected adapter
\* closes the driver handle exactly once and leaves the adapter
\* unconnected; disconnect on an unconnected adapter does nothing.
C26_UsableOnlyWhileConnected ==
    /\ (call.op \in HandleMethods /\ call.handle = NoHandle) =>
          /\ call.issued = <<>>
          /\ ~EndedBeforeHandle => call.raised = "NotConnected"
    /\ (/\ call.op \in {"MySQLClient.connection", "ClickHouseClient.client"}
        /\ call.handle # NoHandle) =>
          /\ call.raised = "nothing"
          /\ call.value = call.handle
    /\ (call.op \in DisconnectMethods /\ call.handle # NoHandle) =>
          /\ Len(call.issued) = 1
          /\ call.issued[1].method = "close"
          /\ call.raised = "nothing" => HandleNow = NoHandle
    /\ (call.op \in DisconnectMethods /\ call.handle = NoHandle) =>
          /\ call.issued = <<>>
          /\ call.raised = "nothing"
          /\ HandleNow = NoHandle

\* a connected source adapter was disconnected with one close
C26_Witness ==
    /\ call.op = "MySQLClient.disconnect"
    /\ call.handle # NoHandle
    /\ call.raised = "nothing"
    /\ Len(call.issued) = 1
    /\ handles.mysql = NoHandle

----------------------------------------------------------------------------
(* Type conversion *)

\* the column convert_column_type was called with and what it returned
ConvertedColumn == sourceSchema.columns[1]
Converted == generated.result

\* B of the claim: the type inside Nullable(...) when there is a wrapper
BaseOf(type) == IF type.name = "Nullable" THEN type.args[1] ELSE type

\* `numeric_precision or 10` and `numeric_scale or 0`
PrecisionOr10(column) ==
    IF column.numeric_precision \in {None, Some(0)}
    THEN 10 ELSE column.numeric_precision[1]
ScaleOr0(column) ==
    IF column.numeric_scale = None THEN 0 ELSE column.numeric_scale[1]

\* C27: convert_column_type returns Decimal(P, S) with P = numeric_precision
\* or 10 and S = numeric_scale or 0 for a decimal or numeric type in any
\* letter case, the entry of the mapping table for a type of the table and
\* String for every other type, wrapped in Nullable(...) exactly when the
\* column is nullable
C27_ConvertColumnType ==
    generated.method = "convert_column_type" =>
        LET mysql_type == Lower(ConvertedColumn.data_type) IN
        /\ (Converted.name = "Nullable") <=> ConvertedColumn.is_nullable
        /\ Converted.name = "Nullable" => Len(Converted.args) = 1
        /\ mysql_type \in {"decimal", "numeric"} =>
              BaseOf(Converted) =
                  TypeExpr("Decimal", <<PrecisionOr10(ConvertedColumn),
                                        ScaleOr0(ConvertedColumn)>>)
        /\ /\ mysql_type \notin {"decimal", "numeric"}
           /\ mysql_type \in DOMAIN MYSQL_TO_CLICKHOUSE_TYPE_MAP
           => BaseOf(Converted) =
                  TypeExpr(MYSQL_TO_CLICKHOUSE_TYPE_MAP[mysql_type], <<>>)
        /\ /\ mysql_type \notin {"decimal", "numeric"}
           /\ mysql_type \notin DOMAIN MYSQL_TO_CLICKHOUSE_TYPE_MAP
           => BaseOf(Converted) = TypeExpr("String", <<>>)

\* a nullable DECIMAL column without precision and with scale 2 was
\* converted to Nullable(Decimal(10, 2))
C27_Witness ==
    /\ generated.method = "convert_column_type"
    /\ ConvertedColumn.data_type = "DECIMAL"
    /\ ConvertedColumn.numeric_precision = None
    /\ ConvertedColumn.numeric_scale = Some(2)
    /\ ConvertedColumn.is_nullable
    /\ Converted = Nullable(TypeExpr("Decimal", <<10, 2>>))

----------------------------------------------------------------------------
(* The sorting key of the generated tables *)

\* the ORDER BY key the generator is to emit for the schema
KeyOf(schema) ==
    IF Len(schema.primary_keys) > 0
    THEN [i \in 1..Len(schema.primary_keys) |->
             Quoted(schema.primary_keys[i])]
    ELSE IF Len(schema.columns) > 0
    THEN <<Quoted(schema.columns[1].name)>>
    ELSE <<Literal("tuple()")>>

\* the names in an ORDER BY key
KeyNames(order_by) ==
    {order_by[i].text : i \in {j \in 1..Len(order_by) : order_by[j].quoted}}

\* a CREATE TABLE statement of either kind was generated
TableGenerated ==
    generated.method \in {"generate_create_table", "generate_cdc_table"}

\* C28: generate_create_table and generate_cdc_table emit the same ORDER BY
\* key for a schema, the primary-key columns in declaration order, else the
\* first column, else tuple(), and neither _version nor _deleted is in it
C28_OrderByKey ==
    TableGenerated =>
        /\ generated.result.order_by = KeyOf(sourceSchema)
        /\ KeyNames(generated.result.order_by)
               \cap {"_version", "_deleted"} = {}

----------------------------------------------------------------------------
(* The row shape of a CDC table *)

\* name and type of each column of a CREATE TABLE statement, in order
Declared(sql) ==
    [i \in 1..Len(sql.columns) |->
        <<sql.columns[i].name, sql.columns[i].type>>]

\* the column names of a CREATE TABLE statement, in order
DeclaredNames(sql) == [i \in 1..Len(sql.columns) |-> sql.columns[i].name]

\* C29: the columns of generate_cdc_table(S) are those of
\* generate_create_table(S) in the same order, then _version UInt64, then
\* _deleted UInt8, and nothing else; the engine is
\* ReplacingMergeTree(_version); the column list of a CDC insert, the cached
\* names + [_version, _deleted], names the declared columns in their order
C29_CdcTableShape ==
    generated.method = "generate_cdc_table" =>
        /\ Declared(generated.result) =
               Declared(generate_create_table(sourceSchema,
                                              generated.result.database))
               \o << <<"_version", TypeExpr("UInt64", <<>>)>>,
                     <<"_deleted", TypeExpr("UInt8", <<>>)>> >>
        /\ generated.result.engine = "ReplacingMergeTree(_version)"
        /\ AllColumns(generated.cached) = DeclaredNames(generated.result)

\* the CDC table of a schema with the columns id and email was generated
C29_Witness ==
    /\ generated.method = "generate_cdc_table"
    /\ ColumnNames(sourceSchema) = <<"id", "email">>
    /\ DeclaredNames(generated.result) =
           <<"id", "email", "_version", "_deleted">>
    /\ AllColumns(generated.cached) =
           <<"id", "email", "_version", "_deleted">>

----------------------------------------------------------------------------
(* The live view *)

\* C30: the SELECT list of generate_cdc_view is the user columns of the
\* schema in their order and has neither _version nor _deleted in it; the
\* view reads the table of the schema with FINAL and keeps the rows with
\* _deleted = 0
C30_LiveViewProjection ==
    generated.method = "generate_cdc_view" =>
        /\ generated.result.select = ColumnNames(sourceSchema)
        /\ Range(generated.result.select)
               \cap {"_version", "_deleted"} = {}
        /\ generated.result.from.table = sourceSchema.name
        /\ generated.result.from.final
        /\ generated.result.where = [column |-> "_deleted", equals |-> 0]

----------------------------------------------------------------------------
(* Reopening after a failure *)

\* the last position this run knows to be in the checkpoint file: the one
\* it wrote last without an exception, else the one it loaded at its start
LastPersisted == IF obs.saved # None THEN obs.saved ELSE obs.start

\* the step of _create_binlog_stream behind a backoff sleep
Reopens == pc = "open" /\ pc' = "iter" /\ obs.reopens > 0

----------------------------------------------------------------------------
(* One insert per event *)

\* the insert_data calls of the handlers, in the order they were made
EventInserts == SelectSeq(inserts, LAMBDA c : c.cause.type # "sync")

\* the handler calls whose event had at least one row, in order
HandledWithRows == SelectSeq(handled, LAMBDA h : h.event.rows # <<>>)

\* the row image of row i of an event that goes to the sink
ImageOf(ev, i) ==
    IF ev.type = "update" THEN ev.rows[i].after_values ELSE ev.rows[i].values

\* C32: an event with at least one row gives exactly one insert_data call,
\* for the table of the event, with the cached columns + [_version, _deleted]
\* as column list, with one tuple for every row of the event and the same
\* _version in all of them; an event without rows gives no call
C32_OneInsertPerEvent ==
    /\ Len(EventInserts) = Len(HandledWithRows)
    /\ \A j \in 1..Len(HandledWithRows) :
        LET ev == HandledWithRows[j].event
            ins == EventInserts[j] IN
        /\ j <= Len(EventInserts)
        /\ ins.cause = ev
        /\ ins.table = ev.table
        /\ ins.columns = tableSchemas[ev.table] \o <<"_version", "_deleted">>
        /\ Len(ins.rows) = Len(ev.rows)
        /\ \A i \in 1..Len(ev.rows) :
            /\ i <= Len(ins.rows)
            /\ SubSeq(ins.rows[i], 1, Len(ins.rows[i]) - 2)
                   = DictValues(ImageOf(ev, i))
            /\ ins.rows[i][Len(ins.rows[i]) - 1]
                   = ins.rows[1][Len(ins.rows[1]) - 1]

\* an event without rows and an event with two rows were handled, and
\* insert_data was called once, with two tuples
C32_Witness ==
    /\ Len(handled) = 2
    /\ handled[1].event.rows = <<>>
    /\ handled[1].count = 0
    /\ Len(handled[2].event.rows) = 2
    /\ Len(EventInserts) = 1
    /\ Len(EventInserts[1].rows) = 2

----------------------------------------------------------------------------
(* The replication set while streaming *)

\* the names in REPLICATION_TABLES that are not blank
ConfiguredNames ==
    {Strip(settings.tables[i]) : i \in 1..Len(settings.tables)} \ {""}

\* the replication set the claim describes
ClaimedReplicationSet ==
    IF ConfiguredNames # {} THEN ConfiguredNames ELSE Range(SourceTables)

\* the reader takes an event of a table outside the replication set
FetchesForeignEvent ==
    /\ pc = "iter"
    /\ stream # None /\ stream' # None /\ stream' # stream
    /\ LogIndex(StreamPosition(stream'[1])) \in 1..Len(binlog)
    /\ binlog[LogIndex(StreamPosition(stream'[1]))].table
           \notin ClaimedReplicationSet

\* C33: the replication set is the configured list when a name that is not
\* blank is in it, else all tables of the source; an event of a table
\* outside the set causes no insert, no schema lookup and no checkpoint
\* write; only tables of the set ever receive rows
C33_OnlyTheReplicationSet ==
    /\ [](pc \notin {"start"} \cup Terminal =>
              Range(tables) = ClaimedReplicationSet)
    /\ [](\A t \in Range(SourceTables) :
              sink[t] # {} => t \in ClaimedReplicationSet)
    /\ [][FetchesForeignEvent =>
              /\ pc' = "iter"
              /\ event' = 0
              /\ UNCHANGED <<sink, tableSchemas, positionFile, position>>
              /\ obs'.described = obs.described
              /\ obs'.inserted = obs.inserted]_vars

\* with " t1," configured an event of the second table has passed and the
\* stream waits for the next one; the second table is empty
C33_Witness ==
    /\ settings.tables = <<" t1", "">>
    /\ tables = <<"t1">>
    /\ pc = "iter"
    /\ LogIndex(StreamPosition(stream[1])) = 1
    /\ Len(binlog) >= 1
    /\ binlog[1].table = "t2"
    /\ sink["t2"] = {}
    /\ obs.inserted = {}

----------------------------------------------------------------------------
(* One event at a time *)

\* the reader takes the next event off the stream
Fetches == stream # None /\ stream' # None /\ stream' # stream

\* the position file is written, or a write of it is tried, inside the
\* try block of run()
WritesWhileStreaming ==
    pc \in {"iter", "handle"} /\ positionFile' # positionFile

\* C34: an event is fetched only when no handler is at work, so the inserts
\* made from one stream follow the binlog order of their events, and a
\* periodic checkpoint is written behind the insert of an event and before
\* the next event is fetched
C34_NoOverlap ==
    /\ [](\A i, j \in 1..Len(obs.session) :
              i < j => obs.session[i] < obs.session[j])
    /\ [][Fetches =>
              /\ pc = "iter"
              /\ LogIndex(StreamPosition(stream'[1]))
                     = LogIndex(StreamPosition(stream[1])) + 1]_vars
    /\ [][obs'.session # obs.session /\ obs'.session # <<>> =>
              /\ pc = "handle"
              /\ obs'.session = Append(obs.session, event)
              /\ event = LogIndex(StreamPosition(stream[1]))
              /\ stream' = stream]_vars
    /\ [][WritesWhileStreaming =>
              /\ pc = "handle"
              /\ event \in obs'.inserted
              /\ obs'.session = Append(obs.session, event)
              /\ stream' = stream]_vars

\* two events of the first table were inserted from one stream, the
\* second with a periodic checkpoint behind it
C34_Witness ==
    /\ pc = "iter"
    /\ obs.session = <<1, 2>>
    /\ binlog[1].table = binlog[2].table
    /\ obs.saved = Some(LogPos(2))
    /\ positionFile = SavePosition(LogPos(2))

----------------------------------------------------------------------------
(* The schema cache while streaming *)

\* the while loop of run() has been entered and run() has not ended
Streaming == {"open", "iter", "handle", "cleanup", "sleep"}

\* C35: when the streaming loop starts the schema cache has an entry for
\* every table of the replication set, and from then on the cache is only
\* read: no handler describes a table, no entry is added or changed
C35_CacheIsReadOnlyWhileStreaming ==
    /\ [](pc \in Streaming => Range(tables) \subseteq DOMAIN tableSchemas)
    /\ [][(pc \in Streaming /\ pc' \in Streaming) =>
              /\ tableSchemas' = tableSchemas
              /\ obs'.described = obs.described]_vars

\* started from a checkpoint, the cache was primed for both tables and an
\* event of the second table was inserted
C35_Witness ==
    /\ obs.start # None
    /\ ~obs.synced
    /\ pc = "iter"
    /\ DOMAIN tableSchemas = {"t1", "t2"}
    /\ obs.described = {"t1", "t2"}
    /\ \E i \in obs.inserted : binlog[i].table = "t2"

----------------------------------------------------------------------------
(* A failed initial sync leaves no checkpoint *)

\* initial_sync is at work
Bootstrapping == {"sync_position", "sync_schema", "sync_copy", "sync_save"}

\* C36: while initial_sync is at work, and when it ends with an exception
\* or a signal at whatever step, the checkpoint file holds no position, so
\* the next start finds none and takes the initial sync again; the file
\* gets a position only in the last step, when every table of the
\* replication set has been copied, and it is the position captured first
C36_NoCheckpointBeforeFullCopy ==
    /\ [](pc \in Bootstrapping => LoadPosition(positionFile) = None)
    /\ [][(pc \in Bootstrapping /\ pc' \in Terminal) =>
              LoadPosition(positionFile') = None]_vars
    /\ [][(pc \in Bootstrapping /\ LoadPosition(positionFile') # None) =>
              /\ pc = "sync_save"
              /\ obs.copied = Range(tables)
              /\ LoadPosition(positionFile') = syncPosition]_vars

\* the first table was copied, then initial_sync ended with an exception;
\* the checkpoint file is absent
C36_Witness ==
    /\ pc = "raised"
    /\ ~obs.loaded
    /\ positionFile = AbsentFile
    /\ sink["t1"] # {}
    /\ obs.inserted = {}

(***************************************************************************)
(* MySQLClient.fetch_data_batched as a function of what its cursor returns *)
(***************************************************************************)

MaxCursorRows == 3
MaxBatchSize == 2

\* lists passed as columns: one column, two columns in either order, and a
\* list _validate_identifier rejects
BatchColumnLists ==
    {<< <<"a">> >>, << <<"a">>, <<"Z">> >>, << <<"Z">>, <<"a">> >>,
     << <<"a", ";">> >>}
\* values passed as batch_size
BatchSizes == 0..MaxBatchSize
\* the rows an SSDictCursor returns for SELECT columns: one dict per row,
\* keyed by column name
CursorRows(columns) ==
    UNION {[1..n -> [Range(columns) -> {0, 1}]] : n \in 0..MaxCursorRows}

\* tuple(row[col] for col in columns)
ProjectRow(row, columns) == [i \in 1..Len(columns) |-> row[columns[i]]]

\* the loop yields a batch one row too late
RECURSIVE FetchLoopLate(_, _, _, _, _)
FetchLoopLate(cursor, batch_size, columns, batch, yielded) ==
    IF cursor = <<>>
    THEN IF batch # <<>> THEN Append(yielded, batch) ELSE yielded
    ELSE LET appended == Append(batch, ProjectRow(Head(cursor), columns)) IN
         IF Len(appended) > batch_size
         THEN FetchLoopLate(Tail(cursor), batch_size, columns, <<>>,
                            Append(yielded, appended))
         ELSE FetchLoopLate(Tail(cursor), batch_size, columns, appended,
                            yielded)

\* for row in cursor: append the projected row, yield the batch and start
\* a new one when it has batch_size rows; after the loop, yield what is
\* left unless it is empty.  yielded is the batches yielded so far
RECURSIVE FetchLoop(_, _, _, _, _)
FetchLoop(cursor, batch_size, columns, batch, yielded) ==
    IF cursor = <<>>
    THEN IF batch # <<>> THEN Append(yielded, batch) ELSE yielded
    ELSE LET appended == Append(batch, ProjectRow(Head(cursor), columns)) IN
         IF Len(appended) >= batch_size
         THEN FetchLoop(Tail(cursor), batch_size, columns, <<>>,
                        Append(yielded, appended))
         ELSE FetchLoop(Tail(cursor), batch_size, columns, appended, yielded)

\* fetch_data_batched iterated to its end: the names are validated, the
\* connection is read and the statement executed as in
\* MySQLClient_fetch_data_batched, and then the value is the batches yielded
IterateFetchDataBatched(handle, table_name, batch_size, columns, accepts, cursor) ==
    LET opened == MySQLClient_fetch_data_batched(handle, table_name, columns,
                                                 accepts)
    IN  IF opened.raised # "nothing" THEN opened
        ELSE [opened EXCEPT
                 !.value = FetchLoop(cursor, batch_size, columns, <<>>, <<>>)]

\* a caller is about to iterate fetch_data_batched; the source holds the
\* rows of cursor
InitBatches ==
    /\ settings = [tables |-> <<>>, drop_existing |-> FALSE]
    /\ pc = "start"
    /\ exitCode = -1
    /\ tables = <<>>
    /\ position = None
    /\ syncPosition = None
    /\ todo = <<>>
    /\ stream = None
    /\ event = 0
    /\ tableSchemas = <<>>
    /\ reconnectDelay = 1
    /\ outcome = "none"
    /\ positionFile = AbsentFile
    /\ binlog = <<>>
    /\ source = InitialSource
    /\ sink = [t \in Range(SourceTables) |-> {}]
    /\ clock = 0
    /\ obs = InitObs
    /\ HandlersAtRest
    /\ TimerAtRest
    /\ SnapshotAtRest
    /\ ValidatorAtRest
    /\ ReleaseAtRest
    /\ ConverterAtRest
    /\ handles \in [mysql : {NoHandle, "pymysql"}, clickhouse : {NoHandle}]
    /\ \E columns \in BatchColumnLists :
       \E batch_size \in BatchSizes, cursor \in CursorRows(columns) :
           call = [op |-> "iterate", batch_size |-> batch_size,
                   columns |-> columns, cursor |-> cursor]

CallFetchDataBatched ==
    /\ call.op = "iterate"
    /\ \E accepts \in BOOLEAN :
           call' = Called("MySQLClient.fetch_data_batched", handles.mysql,
                      [batch_size |-> call.batch_size,
                       columns |-> call.columns, cursor |-> call.cursor],
                      IterateFetchDataBatched(handles.mysql, <<"a">>,
                                              call.batch_size, call.columns,
                                              accepts, call.cursor))
    /\ UNCHANGED <<handles, adapterFrame>>

NextBatches == CallFetchDataBatched

SpecBatches == InitBatches /\ [][NextBatches]_vars

(* The batches of fetch_data_batched *)

\* the batches one after the other
RECURSIVE Concatenation(_)
Concatenation(batches) ==
    IF batches = <<>> THEN <<>>
    ELSE Head(batches) \o Concatenation(Tail(batches))

\* fetch_data_batched was iterated to its end without an exception
Iterated ==
    /\ call.op = "MySQLClient.fetch_data_batched"
    /\ "cursor" \in DOMAIN call.args
    /\ call.raised = "nothing"

\* C37: for batch_size >= 1 the batches yielded, one after the other, are
\* the rows of the cursor in cursor order, each the tuple of its values in
\* the order of columns; every batch but the last has batch_size rows, the
\* last has 1 to batch_size rows, and none is empty
C37_BatchesPartitionTheCursor ==
    (Iterated /\ call.args.batch_size >= 1) =>
        LET batches == call.value
            cursor == call.args.cursor
            columns == call.args.columns
            batch_size == call.args.batch_size
        IN  /\ Concatenation(batches) =
                   [i \in 1..Len(cursor) |->
                       [j \in 1..Len(columns) |-> cursor[i][columns[j]]]]
            /\ \A k \in 1..Len(batches) :
                   /\ Len(batches[k]) >= 1
                   /\ Len(batches[k]) <= batch_size
                   /\ k < Len(batches) => Len(batches[k]) = batch_size
            /\ cursor = <<>> => batches = <<>>

\* three rows of two columns were read two at a time: a full batch and a
\* last batch of one row, the two values of a row in the order asked for
C37_Witness ==
    /\ Iterated
    /\ call.args.batch_size = 2
    /\ Len(call.args.cursor) = 3
    /\ call.args.columns = << <<"Z">>, <<"a">> >>
    /\ Len(call.value) = 2
    /\ Len(call.value[2]) = 1
    /\ call.value[1][1] = <<1, 0>>

(***************************************************************************)
(* Replicator.run over more tables than the pool has workers               *)
(***************************************************************************)

MaxParallel == 2

\* REPLICATION_TABLES names three tables
PoolTables == <<"t1", "t2", "t3">>
\* REPLICATION_PARALLEL_TABLES from 0 on
PoolSettings ==
    {[tables |-> PoolTables, drop_existing |-> FALSE, parallel_tables |-> p] :
        p \in 0..MaxParallel}

\* the three tables exist in the source and hold no rows; the sink is empty
InitPool ==
    /\ settings \in PoolSettings
    /\ pc = "start"
    /\ exitCode = -1
    /\ tables = <<>>
    /\ position = None
    /\ syncPosition = None
    /\ todo = <<>>
    /\ stream = None
    /\ event = 0
    /\ tableSchemas = <<>>
    /\ reconnectDelay = 1
    /\ outcome = "none"
    /\ positionFile = AbsentFile
    /\ binlog = <<>>
    /\ source = [t \in Range(PoolTables) |-> [k \in Keys |-> Absent]]
    /\ sink = [t \in Range(PoolTables) |-> <<>>]
    /\ clock = 0
    /\ obs = InitObs
    /\ HandlersAtRest
    /\ TimerAtRest
    /\ SnapshotAtRest
    /\ ValidatorAtRest
    /\ AdaptersAtRest
    /\ ReleaseAtRest
    /\ ConverterAtRest

NextPool ==
    \/ SnapshotStart
    \/ \E t \in Range(PoolTables) :
          \/ StartTable(t) \/ ReplicateSchema(t) \/ OpenCursor(t)
          \/ EndOfData(t) \/ CountTarget(t) \/ TableFails(t)
    \/ SnapshotReturn

SpecPool == InitPool /\ [][NextPool]_vars

(* Bounded parallelism of Replicator.run *)

\* the replicate_table calls that have begun and not ended
RunningTasks == {t \in Range(tables) : Running(t)}

\* C38: with parallel_tables p > 1 no more than p replicate_table calls
\* are running at a time, with p <= 1 no more than one, and then a table is
\* begun only when the tables before it in the list have ended; a call
\* that has begun is never begun again, and run returns only when the
\* call of every table of the list has begun and ended
C38_BoundedParallelism ==
    /\ [](pc = "running" =>
            /\ settings.parallel_tables > 1 =>
                  Cardinality(RunningTasks) <= settings.parallel_tables
            /\ settings.parallel_tables <= 1 =>
                  /\ Cardinality(RunningTasks) <= 1
                  /\ \A i \in 1..Len(tables) :
                        tasks[tables[i]].pc # "queued" =>
                            \A j \in 1..(i - 1) : Finished(tables[j]))
    /\ [](pc = "returned" =>
            /\ DOMAIN tasks = Range(GetTables(settings))
            /\ \A t \in DOMAIN tasks : Finished(t))
    /\ [][(pc = "running" /\ pc' \in {"running", "returned"}) =>
              \A t \in Range(tables) :
                  tasks[t].pc # "queued" => tasks'[t].pc # "queued"]_vars

\* two workers, three tables: two calls are running and the third table
\* waits for a worker
C38_Witness ==
    /\ pc = "running"
    /\ settings.parallel_tables = 2
    /\ Cardinality(RunningTasks) = 2
    /\ tasks["t3"].pc = "queued"

(* run() returns only on a shutdown signal *)

\* C39: run() returns, and the process exits with code 0, only out of the
\* finally block of a pass whose iteration was ended by a caught
\* KeyboardInterrupt; a pass whose stream ended without an exception is
\* followed by the backoff sleep of the current delay and by a stream
\* opened at the position last persisted
C39_ReturnsOnlyOnShutdown ==
    /\ [](exitCode = 0 =>
            pc = "returned" /\ outcome = "interrupt" /\ obs.signalled)
    /\ [][(pc # "returned" /\ pc' = "returned") =>
              pc = "cleanup" /\ outcome = "interrupt" /\ exitCode' = 0]_vars
    /\ [][(pc = "cleanup" /\ outcome = "ended" /\ pc' # "cleanup") =>
              /\ pc' \in {"sleep", "raised", "interrupted"}
              /\ stream' = None
              /\ exitCode' # 0]_vars
    /\ [][(pc = "sleep" /\ outcome = "ended" /\ pc' # "sleep") =>
              /\ pc' \in {"open", "interrupted"}
              /\ pc' = "open" => obs'.slept = reconnectDelay]_vars
    /\ [][(Reopens /\ outcome = "ended") =>
              /\ position = LastPersisted
              /\ StreamPosition(stream'[1]) = LastPersisted[1]]_vars

\* an event was inserted, the stream then ended without an exception, and
\* run() has slept and is about to open the next stream
C39_Witness ==
    /\ pc = "open"
    /\ outcome = "ended"
    /\ obs.reopens > 0
    /\ obs.inserted # {}
    /\ exitCode = -1

(* The checkpoint never moves backwards *)

\* a write of the position file that ended without an exception
Persists == obs'.saved # None /\ obs'.saved # obs.saved

\* C40: within one run every position written to the checkpoint file, by
\* initial_sync, by a periodic save or by the save of the finally block,
\* before or after any number of reconnects, lies at or behind the position
\* written before it, and at or behind the position the file held when it
\* was overwritten
C40_CheckpointNeverMovesBack ==
    /\ [][(Persists /\ obs.saved # None) =>
              LogIndex(obs'.saved[1]) >= LogIndex(obs.saved[1])]_vars
    /\ [][(LoadPosition(positionFile) # None
              /\ LoadPosition(positionFile') # None) =>
              LogIndex(LoadPosition(positionFile')[1]) >=
                  LogIndex(LoadPosition(positionFile)[1])]_vars
    /\ [](obs.saved # None /\ LoadPosition(positionFile) # None =>
              LoadPosition(positionFile) = obs.saved)

\* the checkpoint was written in front of the events, a stream was opened
\* again after a backoff, and the checkpoint now lies behind two events
C40_Witness ==
    /\ obs.reopens > 0
    /\ obs.synced
    /\ obs.saved # None
    /\ LogIndex(obs.saved[1]) >= 2
    /\ LoadPosition(positionFile) = obs.saved
    /\ pc = "iter"


============================================================================
